---- MODULE Spec2Model ----
(***************************************************************************)
(* Pattern Analysis Engine (lib/analysis/patternAnalysis.ts) of the        *)
(* Decision Memory app: generateInsights(decisions, reviews) and the       *)
(* stages it calls (derive, computeBaselines, mineSegments, analyzeTrends, *)
(* the four legacy summaries).                                             *)
(*                                                                         *)
(* The engine computes in JavaScript numbers.  They are modelled as what   *)
(* they are, IEEE-754 binary64 values with round-to-nearest-even: a value  *)
(* is a record [neg, m, e] standing for (-1)^neg * m * 2^e, m an odd       *)
(* natural of at most 53 bits (or zero), kept as a little-endian sequence  *)
(* of 15-bit limbs because the checker's integers are 32 bits wide.        *)
(* Subnormals, infinities and the sign of zero are out of reach of the     *)
(* magnitudes the engine handles and are not represented; NaN, the result  *)
(* of 0/0, is the value FNaN.                                              *)
(*                                                                         *)
(* Intermediate values are passed as operator arguments rather than named  *)
(* in LET, which keeps the expression tree of the next-state relation      *)
(* small.                                                                  *)
(***************************************************************************)
EXTENDS Integers, Sequences, FiniteSets, TLC

-----------------------------------------------------------------------------
(* Natural numbers of any size: little-endian limbs, no high zero limb.    *)

LimbBits == 15
LimbBase == 2^15

RECURSIVE BTrim(_)
BTrim(a) ==
    IF a = <<>> THEN a
    ELSE IF a[Len(a)] = 0 THEN BTrim(SubSeq(a, 1, Len(a) - 1)) ELSE a

Limb(a, i) == IF i <= Len(a) THEN a[i] ELSE 0

RECURSIVE BFromInt(_)
BFromInt(n) == IF n = 0 THEN <<>> ELSE <<n % LimbBase>> \o BFromInt(n \div LimbBase)

RECURSIVE BToInt(_)
BToInt(a) == IF a = <<>> THEN 0 ELSE Head(a) + LimbBase * BToInt(Tail(a))

\* a + b from limb i on, c carried in
RECURSIVE BAddC(_, _, _, _)
BAddC(a, b, i, c) ==
    IF i > Len(a) /\ i > Len(b) THEN (IF c = 0 THEN <<>> ELSE <<c>>)
    ELSE LET t == Limb(a, i) + Limb(b, i) + c
         IN  <<t % LimbBase>> \o BAddC(a, b, i + 1, t \div LimbBase)
BAdd(a, b) == BAddC(a, b, 1, 0)

RECURSIVE BSubC(_, _, _, _)
BSubC(a, b, i, br) ==
    IF i > Len(a) THEN <<>>
    ELSE LET t == a[i] - Limb(b, i) - br
         IN  <<IF t < 0 THEN t + LimbBase ELSE t>>
                \o BSubC(a, b, i + 1, IF t < 0 THEN 1 ELSE 0)
\* a - b for a >= b
BSub(a, b) == BTrim(BSubC(a, b, 1, 0))

\* the sign of a - b
RECURSIVE BCmp(_, _)
BCmp(a, b) ==
    IF Len(a) > Len(b) THEN 1
    ELSE IF Len(a) < Len(b) THEN -1
    ELSE IF a = <<>> THEN 0
    ELSE IF a[Len(a)] > b[Len(a)] THEN 1
    ELSE IF a[Len(a)] < b[Len(a)] THEN -1
    ELSE BCmp(SubSeq(a, 1, Len(a) - 1), SubSeq(b, 1, Len(a) - 1))

RECURSIVE BMulC(_, _, _, _)
BMulC(a, c, i, carry) ==
    IF i > Len(a) THEN (IF carry = 0 THEN <<>> ELSE <<carry>>)
    ELSE LET t == a[i] * c + carry
         IN  <<t % LimbBase>> \o BMulC(a, c, i + 1, t \div LimbBase)
\* a * c for 0 <= c < LimbBase
BMulS(a, c) == IF c = 0 THEN <<>> ELSE BMulC(a, c, 1, 0)

\* the quotient limbs (high zero limbs included) and the remainder of the
\* limbs 1..i of a, r carried in from above, by d
RECURSIVE BDivAt(_, _, _, _)
BDivAt(a, d, i, r) ==
    IF i = 0 THEN [q |-> <<>>, r |-> r]
    ELSE LET t    == r * LimbBase + a[i]
             rest == BDivAt(a, d, i - 1, t % d)
         IN  [q |-> rest.q \o <<t \div d>>, r |-> rest.r]
BDivTrim(x) == [q |-> BTrim(x.q), r |-> x.r]
\* quotient and remainder of a by d, 0 < d < LimbBase
BDivS(a, d) == BDivTrim(BDivAt(a, d, Len(a), 0))

Zeros(k) == [i \in 1..k |-> 0]
\* a * 2^k
BShl(a, k) ==
    IF a = <<>> THEN a
    ELSE Zeros(k \div LimbBits) \o BMulS(a, 2^(k % LimbBits))
\* floor(a / 2^k)
BShr(a, k) ==
    IF k \div LimbBits >= Len(a) THEN <<>>
    ELSE BDivS(SubSeq(a, k \div LimbBits + 1, Len(a)), 2^(k % LimbBits)).q

RECURSIVE IntBitLen(_)
IntBitLen(n) == IF n = 0 THEN 0 ELSE 1 + IntBitLen(n \div 2)
BBitLen(a) == IF a = <<>> THEN 0 ELSE (Len(a) - 1) * LimbBits + IntBitLen(a[Len(a)])

RECURSIVE IntTrailingZeros(_)
IntTrailingZeros(n) == IF n % 2 = 1 THEN 0 ELSE 1 + IntTrailingZeros(n \div 2)

-----------------------------------------------------------------------------
(* binary64 values                                                         *)

MantissaBits == 53
F0    == [neg |-> FALSE, m |-> <<>>, e |-> 0]
FNaN  == [nan |-> TRUE]
IsNaN(x) == "nan" \in DOMAIN x

\* m with its tz trailing zero bits (tz < LimbBits) taken off
CanonShift(neg, m, e, tz) ==
    [neg |-> neg, m |-> (IF tz = 0 THEN m ELSE BDivS(m, 2^tz).q), e |-> e + tz]

\* the canonical record of (-1)^neg * m * 2^e: m odd, or zero
RECURSIVE Canon(_, _, _)
Canon(neg, m, e) ==
    IF m = <<>> THEN F0
    ELSE IF m[1] = 0 THEN Canon(neg, Tail(m), e + LimbBits)
    ELSE CanonShift(neg, m, e, IntTrailingZeros(m[1]))

\* q, the quotient of the mantissa by 2^k, goes up by one when the remainder
\* c compares above half (c > 0), or is half (c = 0) and either something
\* lies below it (sticky) or q is odd
Round53Up(neg, q, c, e, sticky) ==
    Canon(neg, IF c > 0 \/ (c = 0 /\ (sticky \/ q[1] % 2 = 1)) THEN BAdd(q, <<1>>) ELSE q, e)

Round53Quot(neg, m, q, e, k, sticky) ==
    Round53Up(neg, q, BCmp(BSub(m, BShl(q, k)), BShl(<<1>>, k - 1)), e + k, sticky)

\* the k low bits of m are cut off
Round53Cut(neg, m, e, k, sticky) == Round53Quot(neg, m, BShr(m, k), e, k, sticky)

\* (-1)^neg * m * 2^e (plus a nonzero amount below the last bit of m when
\* sticky) rounded to 53 significant bits, ties to even
Round53(neg, m, e, sticky) ==
    IF BBitLen(m) <= MantissaBits THEN Canon(neg, m, e)
    ELSE Round53Cut(neg, m, e, BBitLen(m) - MantissaBits, sticky)

FFromInt(n) == Canon(n < 0, BFromInt(IF n < 0 THEN -n ELSE n), 0)
FNeg(x) == IF IsNaN(x) \/ x.m = <<>> THEN x ELSE [x EXCEPT !.neg = ~x.neg]
FAbs(x) == IF IsNaN(x) THEN x ELSE [x EXCEPT !.neg = FALSE]

\* the smaller exponent of two values, to which their mantissas are aligned
MinExp(x, y) == IF x.e < y.e THEN x.e ELSE y.e
Aligned(x, e) == BShl(x.m, x.e - e)

\* the sign (-1, 0, 1) of x - y, exactly
FCmp(x, y) ==
    IF x.neg /\ ~y.neg THEN -1
    ELSE IF ~x.neg /\ y.neg THEN 1
    ELSE (IF x.neg THEN -1 ELSE 1) * BCmp(Aligned(x, MinExp(x, y)), Aligned(y, MinExp(x, y)))
FLt(x, y) == ~IsNaN(x) /\ ~IsNaN(y) /\ FCmp(x, y) < 0
FLe(x, y) == ~IsNaN(x) /\ ~IsNaN(y) /\ FCmp(x, y) <= 0
FGt(x, y) == FLt(y, x)
FGe(x, y) == FLe(y, x)

\* the sum of two nonzero values with mantissas mx, my at exponent e, c the
\* sign of mx - my
FAddSigned(x, y, mx, my, c, e) ==
    IF x.neg # y.neg /\ c = 0 THEN F0
    ELSE Round53(IF x.neg = y.neg \/ c > 0 THEN x.neg ELSE y.neg,
                 IF x.neg = y.neg THEN BAdd(mx, my)
                 ELSE IF c > 0 THEN BSub(mx, my) ELSE BSub(my, mx),
                 e, FALSE)
FAddAligned(x, y, mx, my, e) == FAddSigned(x, y, mx, my, BCmp(mx, my), e)

\* x + y
FAdd(x, y) ==
    IF IsNaN(x) \/ IsNaN(y) THEN FNaN
    ELSE IF x.m = <<>> THEN y
    ELSE IF y.m = <<>> THEN x
    ELSE FAddAligned(x, y, Aligned(x, MinExp(x, y)), Aligned(y, MinExp(x, y)), MinExp(x, y))
FSub(x, y) == FAdd(x, FNeg(y))

\* x * c for an integer 0 <= c < LimbBase
FMulS(x, c) == IF IsNaN(x) THEN FNaN ELSE Round53(x.neg, BMulS(x.m, c), x.e, FALSE)

DivGuardBits == 70
FDivRound(x, qr) == Round53(x.neg, qr.q, x.e - DivGuardBits, qr.r # 0)
\* x / d for an integer 0 <= d < LimbBase; 0/0 is NaN (x/0 for x # 0, an
\* infinity, is not a value the engine can produce and is NaN here too)
FDivS(x, d) ==
    IF IsNaN(x) \/ d = 0 THEN FNaN
    ELSE IF x.m = <<>> THEN F0
    ELSE FDivRound(x, BDivS(BShl(x.m, DivGuardBits), d))

\* the binary64 nearest to the decimal literal n/10^k written in the source
\* (0.3, 0.15, 1.2, ...): a correctly rounded quotient is that value
FLit(n, scale) == FDivS(FFromInt(n), scale)

\* floor((m + 2^(k-1)) / 2^k) for a negative value -m / 2^k, negated: the
\* nearest integer, a half going toward +infinity
NearestBelowZero(m, k, half) ==
    IF BCmp(m, half) <= 0 THEN 0
    ELSE -BToInt(BShr(BAdd(BSub(m, half), BSub(BShl(<<1>>, k), <<1>>)), k))

\* NearestInt with halves going to the even neighbour
NearestIntHalfEven(x) ==
    IF x.e >= 0 THEN (IF x.neg THEN -1 ELSE 1) * BToInt(BShl(x.m, x.e))
    ELSE LET q == BShr(x.m, -x.e)
             c == BCmp(BSub(x.m, BShl(q, -x.e)), BShl(<<1>>, -x.e - 1))
             n == BToInt(q)
         IN  (IF x.neg THEN -1 ELSE 1) * (IF c > 0 \/ (c = 0 /\ n % 2 = 1) THEN n + 1 ELSE n)

\* the integer floor(x + 1/2): halves go toward +infinity
NearestInt(x) ==
    IF x.e >= 0 THEN (IF x.neg THEN -1 ELSE 1) * BToInt(BShl(x.m, x.e))
    ELSE IF ~x.neg THEN BToInt(BShr(BAdd(x.m, BShl(<<1>>, -x.e - 1)), -x.e))
    ELSE NearestBelowZero(x.m, -x.e, BShl(<<1>>, -x.e - 1))

\* Math.round
MathRound(x) == IF IsNaN(x) THEN FNaN ELSE FFromInt(NearestInt(x))

-----------------------------------------------------------------------------
(* Values of the engine                                                    *)

Null      == [null |-> TRUE]
Undefined == [undefined |-> TRUE]

F1    == FFromInt(1)
F0_5  == FLit(5, 10)
F0_3  == FLit(3, 10)
F0_7  == FLit(7, 10)
F0_9  == FLit(9, 10)
F0_15 == FLit(15, 100)
F0_05 == FLit(5, 100)
F0_12 == FLit(12, 100)
F1_2  == FLit(12, 10)
F3    == FFromInt(3)
F8    == FFromInt(8)
F12   == FFromInt(12)
F15   == FFromInt(15)

\* the exact sum of integers
SumInts(s) ==
    LET RECURSIVE Between(_, _)
        Between(lo, hi) ==
            IF lo > hi THEN 0
            ELSE IF lo = hi THEN s[lo]
            ELSE Between(lo, (lo + hi) \div 2) + Between(((lo + hi) \div 2) + 1, hi)
    IN  Between(1, Len(s))

\* arr.reduce((s, x) => s + x, 0) over numbers that are not all integers:
\* the additions are made left to right, each one rounded
\* From(acc, lo, hi) goes on from the partial sum acc with s[lo], ..., s[hi];
\* a partial sum that is NaN stays NaN
FSum(s) ==
    LET RECURSIVE From(_, _, _)
        From(acc, lo, hi) ==
            IF IsNaN(acc) THEN FNaN
            ELSE IF lo > hi THEN acc
            ELSE IF lo = hi THEN FAdd(acc, s[lo])
            ELSE From(From(acc, lo, (lo + hi) \div 2), ((lo + hi) \div 2) + 1, hi)
    IN  From(F0, 1, Len(s))

\* the same reduce over integers of small magnitude: every partial sum is an
\* integer below 2^53 and so is exact
FSumInts(s) == FFromInt(SumInts(s))

\* OUTCOME_SCORE_MAP
OUTCOME_SCORE_MAP ==
    [much_worse |-> -2, slightly_worse |-> -1, as_expected |-> 0,
     slightly_better |-> 1, much_better |-> 2]

confBand(conf) ==
    IF conf <= 39 THEN "low"
    ELSE IF conf <= 59 THEN "mid"
    ELSE IF conf <= 79 THEN "high"
    ELSE "very_high"

confProbFromBand(b) ==
    IF b = "low" THEN F0_3
    ELSE IF b = "mid" THEN F0_5
    ELSE IF b = "high" THEN F0_7
    ELSE F0_9

outcomeProbFromScore(score) ==
    IF score > 0 THEN F1
    ELSE IF score = 0 THEN F0_5
    ELSE F0

\* GATING_THRESHOLDS
GATE_baselineCard      == 3
GATE_segments          == 8
GATE_segmentMinSamples == 5
GATE_trends            == 12

\* round(n, digits = 2): Math.round(n * 100) / 100
round(n) == FDivS(MathRound(FMulS(n, 100)), 100)

-----------------------------------------------------------------------------
(* derive                                                                  *)

\* String(d.id)
StringOfId(id) == ToString(id)

SetMax(S) == CHOOSE x \in S : \A y \in S : y <= x

\* ReviewMapGet with the key forgotten: any stored review answers
ReviewMapGetAnyKey(rs, key) == IF rs = <<>> THEN Undefined ELSE rs[Len(rs)]

\* ReviewMapGet keeping the first entry of a key instead of the last
ReviewMapGetFirstWins(rs, key) ==
    LET hits == {i \in 1..Len(rs) : rs[i].decision_id = key}
    IN  IF hits = {} THEN Undefined ELSE rs[CHOOSE i \in hits : \A j \in hits : i <= j]

\* new Map(reviews.map(r => [r.decision_id, r])).get(key): a later entry of
\* the list replaces an earlier one with the same key
ReviewMapGet(rs, key) ==
    LET hits == {i \in 1..Len(rs) : rs[i].decision_id = key}
    IN  IF hits = {} THEN Undefined ELSE rs[SetMax(hits)]

\* The properties that an object literal such as OUTCOME_SCORE_MAP inherits
\* from Object.prototype: a lookup of one of these keys finds a function or
\* an object, which is neither null nor undefined.
InheritedFromObject(key) ==
    key \in {"constructor", "toString", "toLocaleString", "valueOf", "hasOwnProperty",
             "isPrototypeOf", "propertyIsEnumerable", "__proto__", "__defineGetter__",
             "__defineSetter__", "__lookupGetter__", "__lookupSetter__"}

\* OUTCOME_SCORE_MAP[r.expectation_comparison] ?? 0; [inherited |-> key]
\* stands for the value found in Object.prototype
OutcomeScoreOf(r) ==
    IF r.expectation_comparison \in DOMAIN OUTCOME_SCORE_MAP
    THEN OUTCOME_SCORE_MAP[r.expectation_comparison]
    ELSE IF InheritedFromObject(r.expectation_comparison)
    THEN [inherited |-> r.expectation_comparison]
    ELSE 0

\* the object pushed for a reviewed decision
DerivedRecord(d, r, outcomeScore, band, confProb, outcomeProb) ==
    [decision |-> d, review |-> r, outcomeScore |-> outcomeScore,
     confBand |-> band, confProb |-> confProb, outcomeProb |-> outcomeProb,
     calibrationError |-> FAbs(FSub(confProb, outcomeProb)),
     reviewedAt |-> r.reviewed_at]

DerivedOf(d, r) ==
    DerivedRecord(d, r, OutcomeScoreOf(r), confBand(d.confidence),
                  confProbFromBand(confBand(d.confidence)),
                  \* score > 0 and score === 0 are both false of a score that
                  \* is not a number
                  IF InheritedFromObject(r.expectation_comparison) THEN F0
                  ELSE outcomeProbFromScore(OutcomeScoreOf(r)))

\* DeriveOne without the test for a missing review: a decision never
\* reviewed counts as reviewed 'as_expected' at time 0
DeriveOneUnreviewedToo(d, r) ==
    IF r = Undefined
    THEN <<DerivedOf(d, [decision_id |-> StringOfId(d.id),
                         expectation_comparison |-> "as_expected",
                         surprise_score |-> 0, would_repeat |-> "yes", reviewed_at |-> 0])>>
    ELSE <<DerivedOf(d, r)>>

\* if (!r) continue
DeriveOne(d, r) == IF r = Undefined THEN <<>> ELSE <<DerivedOf(d, r)>>

\* the loop over the decisions: what each pass pushes, in the order of the
\* passes
DerivePush(ds, rs) ==
    LET pushed == SelectSeq([i \in 1..Len(ds) |->
                                DeriveOne(ds[i], ReviewMapGet(rs, StringOfId(ds[i].id)))],
                            LAMBDA one : one # <<>>)
    IN  SubSeq([k \in 1..Len(pushed) |-> pushed[k][1]], 1, Len(pushed))

\* Array.prototype.sort is stable: an element goes after those reviewed
\* earlier and after those reviewed at the same time that stood before it
SortByTime(s) ==
    LET before(i) == {j \in 1..Len(s) :
                        \/ s[j].reviewedAt < s[i].reviewedAt
                        \/ s[j].reviewedAt = s[i].reviewedAt /\ j < i}
        place == SubSeq([i \in 1..Len(s) |-> Cardinality(before(i)) + 1], 1, Len(s))
    IN  SubSeq([k \in 1..Len(s) |-> s[CHOOSE i \in 1..Len(s) : place[i] = k]], 1, Len(s))

\* derive without its sort
deriveUnsorted(ds, rs) == DerivePush(ds, rs)

derive(ds, rs) == SortByTime(DerivePush(ds, rs))

-----------------------------------------------------------------------------
(* computeBaselines                                                        *)

OutcomeScores(dv)     == [i \in 1..Len(dv) |-> dv[i].outcomeScore]
SurpriseScores(dv)    == [i \in 1..Len(dv) |-> dv[i].review.surprise_score]
CalibrationErrors(dv) == [i \in 1..Len(dv) |-> dv[i].calibrationError]

MeanOutcome(dv)  == FDivS(FSumInts(OutcomeScores(dv)), Len(dv))
MeanSurprise(dv) == FDivS(FSumInts(SurpriseScores(dv)), Len(dv))
MeanCalError(dv) == FDivS(FSum(CalibrationErrors(dv)), Len(dv))

\* computeBaselines without the early return for an empty list
computeBaselinesUnguarded(derived) ==
    [reviewCount |-> Len(derived),
     avgOutcomeScore |-> round(MeanOutcome(derived)),
     avgSurprise |-> round(MeanSurprise(derived)),
     avgCalibrationError |-> round(MeanCalError(derived))]

computeBaselines(derived) ==
    IF Len(derived) = 0
    THEN [reviewCount |-> 0, avgOutcomeScore |-> F0, avgSurprise |-> F0,
          avgCalibrationError |-> F0]
    ELSE [reviewCount |-> Len(derived),
          avgOutcomeScore |-> round(MeanOutcome(derived)),
          avgSurprise |-> round(MeanSurprise(derived)),
          avgCalibrationError |-> round(MeanCalError(derived))]

-----------------------------------------------------------------------------
(* mineSegments                                                            *)

decisionTypes == <<"personal", "work", "finance", "health", "other">>
importances   == <<"low", "medium", "high">>
speeds        == <<"quick", "moderate", "slow">>
confBands     == <<"low", "mid", "high", "very_high">>

\* the four nested loops, in the order they visit the combinations
Candidates ==
    [k \in 1..(Len(decisionTypes) * Len(importances) * Len(speeds) * Len(confBands)) |->
        [type |-> decisionTypes[(k - 1) \div (Len(importances) * Len(speeds) * Len(confBands)) + 1],
         imp  |-> importances[(((k - 1) \div (Len(speeds) * Len(confBands))) % Len(importances)) + 1],
         spd  |-> speeds[(((k - 1) \div Len(confBands)) % Len(speeds)) + 1],
         band |-> confBands[((k - 1) % Len(confBands)) + 1]]]

SegmentOf(derived, c) ==
    LET Match(d) == /\ d.decision.decision_type = c.type
                    /\ d.decision.importance = c.imp
                    /\ d.decision.decision_speed = c.spd
                    /\ d.confBand = c.band
    IN  SelectSeq(derived, Match)

\* seg.filter(s => s.review.would_repeat === 'yes').length / n
RepeatRateOf(seg) ==
    FDivS(FFromInt(Cardinality({i \in 1..Len(seg) : seg[i].review.would_repeat = "yes"})),
          Len(seg))

\* the lifts of a segment against the baseline
LiftsOf(seg, baseline) ==
    IF baseline.reviewCount # 0
    THEN [outcome  |-> FSub(MeanOutcome(seg), baseline.avgOutcomeScore),
          surprise |-> FSub(MeanSurprise(seg), baseline.avgSurprise),
          calError |-> FSub(MeanCalError(seg), baseline.avgCalibrationError)]
    ELSE [outcome |-> F0, surprise |-> F0, calError |-> F0]

\* Interesting without the repeat-rate test
InterestingLiftsOnly(lifts, repeatRate) ==
    \/ FGe(FAbs(lifts.outcome), F0_5)
    \/ FGe(FAbs(lifts.surprise), F12)
    \/ FGe(FAbs(lifts.calError), F0_15)

Interesting(lifts, repeatRate) ==
    \/ FGe(FAbs(lifts.outcome), F0_5)
    \/ FGe(FAbs(lifts.surprise), F12)
    \/ FGe(FAbs(lifts.calError), F0_15)
    \/ FLt(repeatRate, F0_5)

\* score = |outcomeLift| * 2 + |surpriseLift| / 10 + |calErrorLift| * 3 + (n >= 6 ? 1 : 0)
StrengthScore(lifts, n) ==
    FAdd(FAdd(FAdd(FMulS(FAbs(lifts.outcome), 2), FDivS(FAbs(lifts.surprise), 10)),
              FMulS(FAbs(lifts.calError), 3)),
         IF n >= 6 THEN F1 ELSE F0)

SegmentStrength(score) ==
    IF FGt(score, F3) THEN "strong" ELSE IF FGt(score, F1_2) THEN "medium" ELSE "weak"

SegmentId(c) == "seg-" \o c.type \o "-" \o c.imp \o "-" \o c.spd \o "-" \o c.band

\* the evidence entry of a metric that has a baseline
Lifted(n, metric, value, baseline, lift) ==
    [n |-> n, metric |-> metric, value |-> round(value), baseline |-> baseline,
     lift |-> round(lift)]

\* the evidence entry of a metric that has none
Plain(n, metric, value) ==
    [n |-> n, metric |-> metric, value |-> value, baseline |-> Undefined, lift |-> Undefined]

\* if (!interesting) continue; else the card pushed.  title, message, tags
\* and actionHint of a card are fixed texts filled in with the candidate and
\* n, which the id and the evidence carry.
SegmentIfInteresting(seg, baseline, c, lifts, repeatRate) ==
    IF ~Interesting(lifts, repeatRate) THEN <<>>
    ELSE <<
    [id |-> SegmentId(c),
     strength |-> SegmentStrength(StrengthScore(lifts, Len(seg))),
     evidence |-> <<
        Lifted(Len(seg), "avgOutcome", MeanOutcome(seg), baseline.avgOutcomeScore, lifts.outcome),
        Lifted(Len(seg), "avgSurprise", MeanSurprise(seg), baseline.avgSurprise, lifts.surprise),
        Lifted(Len(seg), "avgCalibrationError", MeanCalError(seg),
               baseline.avgCalibrationError, lifts.calError),
        Plain(Len(seg), "repeatRate", round(FMulS(repeatRate, 100))) >>] >>

\* if (n < GATING_THRESHOLDS.segmentMinSamples) continue
SegmentIfSampled(seg, baseline, c) ==
    IF Len(seg) = 0 THEN <<>>
    ELSE IF Len(seg) < GATE_segmentMinSamples THEN <<>>
    ELSE SegmentIfInteresting(seg, baseline, c, LiftsOf(seg, baseline), RepeatRateOf(seg))

\* one pass of the loop body: the card pushed for a candidate, if any
SegmentCards(derived, baseline, c) == SegmentIfSampled(SegmentOf(derived, c), baseline, c)

SetMin(S) == CHOOSE x \in S : \A y \in S : x <= y

\* the cards in the order the loops push them
RECURSIVE PushedInOrder(_, _)
PushedInOrder(per, hits) ==
    IF hits = {} THEN <<>>
    ELSE <<per[SetMin(hits)][1]>> \o PushedInOrder(per, hits \ {SetMin(hits)})

PushedOf(per) == PushedInOrder(per, {k \in DOMAIN per : per[k] # <<>>})

SegmentsPushed(derived, baseline) ==
    PushedOf([k \in 1..Len(Candidates) |-> SegmentCards(derived, baseline, Candidates[k])])

\* the sort key: the sum of |lift| over the evidence entries that have one
LiftSum(card) ==
    FSum([i \in 1..Len(card.evidence) |->
            IF card.evidence[i].lift = Undefined THEN F0 ELSE FAbs(card.evidence[i].lift)])

\* SortByScore putting, of two cards with equal scores, the later one first
SortByScoreLaterFirst(s) ==
    LET sums  == SubSeq([i \in 1..Len(s) |-> LiftSum(s[i])], 1, Len(s))
        place == SubSeq([i \in 1..Len(s) |->
                            Cardinality({j \in 1..Len(s) :
                                \/ FGt(sums[j], sums[i])
                                \/ sums[j] = sums[i] /\ j > i}) + 1], 1, Len(s))
    IN  SubSeq([k \in 1..Len(s) |-> s[CHOOSE i \in 1..Len(s) : place[i] = k]], 1, Len(s))

\* segments.sort((a, b) => scoreB - scoreA), a stable sort: x goes after
\* every element whose score is not below its own
RECURSIVE InsertByScore(_, _)
InsertByScore(sorted, x) ==
    IF sorted = <<>> THEN <<x>>
    ELSE IF FGe(LiftSum(sorted[Len(sorted)]), LiftSum(x)) THEN Append(sorted, x)
    ELSE Append(InsertByScore(SubSeq(sorted, 1, Len(sorted) - 1), x), sorted[Len(sorted)])

RECURSIVE SortByScore(_)
SortByScore(s) ==
    IF s = <<>> THEN <<>> ELSE InsertByScore(SortByScore(SubSeq(s, 1, Len(s) - 1)), s[Len(s)])

TopSegments == 6

\* sorted.slice(0, 6)
Top(sorted) == SubSeq(sorted, 1, IF Len(sorted) < TopSegments THEN Len(sorted) ELSE TopSegments)

\* mineSegments cutting to six before it sorts
mineSegmentsCutFirst(derived, baseline) == SortByScore(Top(SegmentsPushed(derived, baseline)))

mineSegments(derived, baseline) == Top(SortByScore(SegmentsPushed(derived, baseline)))

-----------------------------------------------------------------------------
(* analyzeTrends                                                           *)

TrendWindow == 10

TrendCard(id, metric, lastN, delta, strongAbove) ==
    [id |-> id,
     strength |-> IF FGt(FAbs(delta), strongAbove) THEN "strong" ELSE "medium",
     evidence |-> <<Plain(lastN, metric, delta)>>]

\* the three checks, in the order they push
TrendCards(lastN, outcomeDelta, surpriseDelta, calErrorDelta) ==
    (IF FGe(FAbs(outcomeDelta), F0_5)
     THEN <<TrendCard("trend-outcome", "outcomeDelta", lastN, outcomeDelta, F1)>>
     ELSE <<>>)
    \o
    (IF FGe(FAbs(surpriseDelta), F8)
     THEN <<TrendCard("trend-surprise", "surpriseDelta", lastN, surpriseDelta, F15)>>
     ELSE <<>>)
    \o
    (IF FGe(FAbs(calErrorDelta), F0_05)
     THEN <<TrendCard("trend-calibration", "calErrorDelta", lastN, calErrorDelta, F0_12)>>
     ELSE <<>>)

\* TrendsBetween with the two windows taken for one another
TrendsBetweenSwapped(tail, prev, lastN) ==
    IF Len(prev) = 0 THEN <<>>
    ELSE TrendCards(lastN,
                    round(FSub(MeanOutcome(prev), MeanOutcome(tail))),
                    round(FSub(MeanSurprise(prev), MeanSurprise(tail))),
                    round(FSub(MeanCalError(prev), MeanCalError(tail))))

\* if (prev.length === 0) return trends
TrendsBetween(tail, prev, lastN) ==
    IF Len(prev) = 0 THEN <<>>
    ELSE TrendCards(lastN,
                    round(FSub(MeanOutcome(tail), MeanOutcome(prev))),
                    round(FSub(MeanSurprise(tail), MeanSurprise(prev))),
                    round(FSub(MeanCalError(tail), MeanCalError(prev))))

\* analyzeTrends with everything before the tail taken as prev
analyzeTrendsAllEarlier(derived) ==
    LET n      == Len(derived)
        half   == n \div 2
        lastN  == IF TrendWindow < half THEN TrendWindow ELSE half
    IN  IF n < 2 THEN <<>>
        ELSE IF lastN < 1 THEN <<>>
        ELSE TrendsBetween(SubSeq(derived, n - lastN + 1, n), SubSeq(derived, 1, n - lastN), lastN)

analyzeTrends(derived) ==
    LET n      == Len(derived)
        half   == n \div 2
        lastN  == IF TrendWindow < half THEN TrendWindow ELSE half
    IN  IF n < 2 THEN <<>>
        ELSE IF lastN < 1 THEN <<>>
        ELSE TrendsBetween(SubSeq(derived, n - lastN + 1, n),
                           SubSeq(derived, (IF n - 2 * lastN < 0 THEN 0 ELSE n - 2 * lastN) + 1,
                                  n - lastN),
                           lastN)

-----------------------------------------------------------------------------
(* generateInsights                                                        *)

\* arr.sort((a, b) => a - b) on numbers
RECURSIVE InsertInt(_, _)
InsertInt(sorted, x) ==
    IF sorted = <<>> THEN <<x>>
    ELSE IF sorted[Len(sorted)] <= x THEN Append(sorted, x)
    ELSE Append(InsertInt(SubSeq(sorted, 1, Len(sorted) - 1), x), sorted[Len(sorted)])
RECURSIVE SortInts(_)
SortInts(s) ==
    IF s = <<>> THEN <<>> ELSE InsertInt(SortInts(SubSeq(s, 1, Len(s) - 1)), s[Len(s)])

Confidences(derived) == [i \in 1..Len(derived) |-> derived[i].decision.confidence]

\* the median of a sorted array; arrays are indexed from 0 in the source and
\* from 1 here
MedianOf(arr) ==
    IF Len(arr) % 2 = 1 THEN FFromInt(arr[Len(arr) \div 2 + 1])
    ELSE MathRound(FDivS(FFromInt(arr[Len(arr) \div 2] + arr[Len(arr) \div 2 + 1]), 2))

medianConfidence(derived) == MedianOf(SortInts(Confidences(derived)))

\* (arr.length - 1) * 0.25 and * 0.75 are exact in binary64, so their floors
\* are the integer quotients
IqrOf(arr) == arr[(3 * (Len(arr) - 1)) \div 4 + 1] - arr[(Len(arr) - 1) \div 4 + 1]

iqr(derived) == IqrOf(SortInts(Confidences(derived)))

calibrationSummary(derived, baseline) ==
    [id |-> "calibration-summary",
     strength |-> IF Len(derived) >= 8 THEN "strong" ELSE "medium",
     evidence |-> << Plain(Len(derived), "medianConfidence", medianConfidence(derived)),
                     Plain(Len(derived), "iqr", FFromInt(iqr(derived))),
                     Plain(Len(derived), "avgCalibrationError", baseline.avgCalibrationError) >>]

\* WellCalibrated with the limit 0.2 in place of 0.15
WellCalibratedWithinFifth(d) == FLe(FAbs(FSub(d.confProb, d.outcomeProb)), FLit(2, 10))

\* Math.abs(d.confProb - d.outcomeProb) <= 0.15
WellCalibrated(d) == FLe(FAbs(FSub(d.confProb, d.outcomeProb)), F0_15)
Overconfident(d)  == ~WellCalibrated(d) /\ FGt(d.confProb, d.outcomeProb)
Underconfident(d) == ~WellCalibrated(d) /\ ~FGt(d.confProb, d.outcomeProb)

confidenceInsight(derived) ==
    [averageConfidence |-> MathRound(FDivS(FSumInts(Confidences(derived)), Len(derived))),
     wellCalibratedCount |-> Cardinality({i \in 1..Len(derived) : WellCalibrated(derived[i])}),
     overconfidentCount |-> Cardinality({i \in 1..Len(derived) : Overconfident(derived[i])}),
     underconfidentCount |-> Cardinality({i \in 1..Len(derived) : Underconfident(derived[i])})]

\* the keys of domainMap in the order Map.entries() yields them: the order
\* in which the decision types first occur in derived
RECURSIVE DomainKeys(_, _)
DomainKeys(derived, i) ==
    IF i = 0 THEN <<>>
    ELSE LET before == DomainKeys(derived, i - 1)
             k      == derived[i].decision.decision_type
         IN  IF \E j \in 1..Len(before) : before[j] = k THEN before ELSE Append(before, k)

DomainAverage(derived, k) ==
    LET OfType(d) == d.decision.decision_type = k
    IN  MeanSurprise(SelectSeq(derived, OfType))

\* one pass of the loop over domainMap.entries(): avg > mostVal and
\* avg < leastVal, where mostVal = -Infinity and leastVal = Infinity at the
\* start are the Undefined values here
DomainStep(acc, key, av) ==
    [most     |-> IF (IF acc.mostVal = Undefined THEN ~IsNaN(av) ELSE FGt(av, acc.mostVal))
                  THEN key ELSE acc.most,
     mostVal  |-> IF (IF acc.mostVal = Undefined THEN ~IsNaN(av) ELSE FGt(av, acc.mostVal))
                  THEN av ELSE acc.mostVal,
     least    |-> IF (IF acc.leastVal = Undefined THEN ~IsNaN(av) ELSE FLt(av, acc.leastVal))
                  THEN key ELSE acc.least,
     leastVal |-> IF (IF acc.leastVal = Undefined THEN ~IsNaN(av) ELSE FLt(av, acc.leastVal))
                  THEN av ELSE acc.leastVal]

\* a domain still undefined is the text "undefined"
RECURSIVE DomainScan(_, _)
DomainScan(derived, keys) ==
    IF keys = <<>>
    THEN [most |-> "undefined", mostVal |-> Undefined, least |-> "undefined", leastVal |-> Undefined]
    ELSE DomainStep(DomainScan(derived, SubSeq(keys, 1, Len(keys) - 1)), keys[Len(keys)],
                    DomainAverage(derived, keys[Len(keys)]))

SurpriseOf(derived, scan) ==
    [averageSurpriseScore |-> round(MeanSurprise(derived)),
     mostSurprisedDomain |-> scan.most,
     leastSurprisedDomain |-> scan.least]

surpriseInsight(derived) ==
    SurpriseOf(derived, DomainScan(derived, DomainKeys(derived, Len(derived))))

\* Math.round((part / whole) * 100)
Percent(part, whole) == MathRound(FMulS(FDivS(FFromInt(part), whole), 100))

InBucket(derived, s) == {i \in 1..Len(derived) : derived[i].decision.decision_speed = s}
\* Regretted counting every answer but 'yes'
RegrettedNotYes(derived, s) ==
    {i \in InBucket(derived, s) : derived[i].review.would_repeat # "yes"}

Regretted(derived, s) ==
    {i \in InBucket(derived, s) : derived[i].review.would_repeat = "no"}

\* RegretRate without the test for an empty bucket
RegretRateUnguarded(derived, s) ==
    Percent(Cardinality(Regretted(derived, s)), Cardinality(InBucket(derived, s)))

\* bucket.length ? Math.round((regret / bucket.length) * 100) : 0
RegretRate(derived, s) ==
    IF Cardinality(InBucket(derived, s)) # 0
    THEN Percent(Cardinality(Regretted(derived, s)), Cardinality(InBucket(derived, s)))
    ELSE F0

speedInsight(derived) ==
    [quickDecisionsRegretRate    |-> RegretRate(derived, "quick"),
     moderateDecisionsRegretRate |-> RegretRate(derived, "moderate"),
     slowDecisionsRegretRate     |-> RegretRate(derived, "slow")]

WouldRepeat(derived, answer) ==
    Cardinality({i \in 1..Len(derived) : derived[i].review.would_repeat = answer})

\* repeatInsight counting as unsure the answers 'unsure' only
repeatInsightUnsureOnly(derived) ==
    [repeatRate |-> Percent(WouldRepeat(derived, "yes"), Len(derived)),
     wouldRepeatCount |-> WouldRepeat(derived, "yes"),
     wouldNotRepeatCount |-> WouldRepeat(derived, "no"),
     unsureCount |-> WouldRepeat(derived, "unsure")]

repeatInsight(derived) ==
    [repeatRate |-> Percent(WouldRepeat(derived, "yes"), Len(derived)),
     wouldRepeatCount |-> WouldRepeat(derived, "yes"),
     wouldNotRepeatCount |-> WouldRepeat(derived, "no"),
     unsureCount |-> Len(derived) - WouldRepeat(derived, "yes") - WouldRepeat(derived, "no")]

\* GatedCards with the trend stage left ungated
GatedCardsTrendsUngated(derived, baseline) ==
    (IF Len(derived) >= GATE_baselineCard /\ Len(derived) > 0
     THEN <<calibrationSummary(derived, baseline)>> ELSE <<>>)
    \o (IF Len(derived) >= GATE_segments THEN mineSegments(derived, baseline) ELSE <<>>)
    \o analyzeTrends(derived)

\* GatedCards with the trend stage taking the place of the segment stage
GatedCardsTrendsReplaceSegments(derived, baseline) ==
    (IF Len(derived) >= GATE_baselineCard /\ Len(derived) > 0
     THEN <<calibrationSummary(derived, baseline)>> ELSE <<>>)
    \o (IF Len(derived) >= GATE_trends THEN analyzeTrends(derived)
        ELSE IF Len(derived) >= GATE_segments THEN mineSegments(derived, baseline) ELSE <<>>)

\* GatedCards with the trend cards pushed before the segment cards
GatedCardsTrendsFirst(derived, baseline) ==
    (IF Len(derived) >= GATE_baselineCard /\ Len(derived) > 0
     THEN <<calibrationSummary(derived, baseline)>> ELSE <<>>)
    \o (IF Len(derived) >= GATE_trends THEN analyzeTrends(derived) ELSE <<>>)
    \o (IF Len(derived) >= GATE_segments THEN mineSegments(derived, baseline) ELSE <<>>)

\* the cards of the three gated stages, in the order they are pushed
GatedCards(derived, baseline) ==
    (IF Len(derived) >= GATE_baselineCard /\ Len(derived) > 0
     THEN <<calibrationSummary(derived, baseline)>> ELSE <<>>)
    \o (IF Len(derived) >= GATE_segments THEN mineSegments(derived, baseline) ELSE <<>>)
    \o (IF Len(derived) >= GATE_trends THEN analyzeTrends(derived) ELSE <<>>)

\* Insights with the repeat summary left ungated
InsightsRepeatUngated(derived, baseline, minimumReviewsNeeded) ==
    [cards |-> GatedCards(derived, baseline),
     baseline |-> baseline,
     reviewCount |-> Len(derived),
     minimumReviewsNeeded |-> minimumReviewsNeeded,
     confidence |-> IF Len(derived) >= minimumReviewsNeeded THEN confidenceInsight(derived) ELSE Null,
     surprise   |-> IF Len(derived) >= minimumReviewsNeeded THEN surpriseInsight(derived) ELSE Null,
     speed      |-> IF Len(derived) >= minimumReviewsNeeded THEN speedInsight(derived) ELSE Null,
     repeat     |-> repeatInsight(derived)]

\* the object returned; the four summaries are null below
\* minimumReviewsNeeded = GATING_THRESHOLDS.baselineCard reviews
Insights(derived, baseline, minimumReviewsNeeded) ==
    [cards |-> GatedCards(derived, baseline),
     baseline |-> baseline,
     reviewCount |-> Len(derived),
     minimumReviewsNeeded |-> minimumReviewsNeeded,
     confidence |-> IF Len(derived) >= minimumReviewsNeeded THEN confidenceInsight(derived) ELSE Null,
     surprise   |-> IF Len(derived) >= minimumReviewsNeeded THEN surpriseInsight(derived) ELSE Null,
     speed      |-> IF Len(derived) >= minimumReviewsNeeded THEN speedInsight(derived) ELSE Null,
     repeat     |-> IF Len(derived) >= minimumReviewsNeeded THEN repeatInsight(derived) ELSE Null]

generateInsights(ds, rs) ==
    Insights(derive(ds, rs), computeBaselines(derive(ds, rs)), GATE_baselineCard)

-----------------------------------------------------------------------------
(* The insights page: InsightsView loads the two tables and calls the      *)
(* engine once; what it shows depends on the result.                       *)

\* decisions and reviews are the two tables, nextId the key generator of the
\* decisions table, forms the review forms that are open; result is what the
\* last call returned and view what the insights page shows.
VARIABLES decisions, reviews, nextId, forms, result, view
vars == <<decisions, reviews, nextId, forms, result, view>>

\* The stored records the page can find.  A reviewed decision is drawn from
\* four kinds; kinds 1 and 2 fall in one segment (work, high, quick,
\* very_high) and differ in their outcome, kind 3 is a different segment with
\* different outcomes, kind 4 has the outcomes of kind 1 in another segment.
\* WouldRepeat = 'yes' | 'no' | 'unsure' | null: the null of a review without
\* an answer, which the engine only ever compares with 'yes' and with 'no'
NoAnswer == "null"

\* Kinds 9 to 11 fall into one segment (personal, low, slow, band low) and
\* kinds 12 to 19 into others; between them they have the confidences at
\* both ends of every band, every expectation_comparison and one that
\* OUTCOME_SCORE_MAP does not know, and every would_repeat.
\* Kinds 5 to 8 are the records of the trend histories: kind 5 is the calm
\* one (outcome 0, surprise 0, calibration error 0), kind 6 went much worse
\* than a confident forecast (-2, 16, 0.9), kind 7 differs from kind 5 by a
\* surprise of 15 and kind 8 is a mild miss (0, 8, 0.2).
Kinds ==
    << [decision_type |-> "work", importance |-> "high", decision_speed |-> "quick",
        confidence |-> 90, expectation_comparison |-> "as_expected",
        surprise_score |-> 0, would_repeat |-> "no"],
       [decision_type |-> "work", importance |-> "high", decision_speed |-> "quick",
        confidence |-> 90, expectation_comparison |-> "slightly_better",
        surprise_score |-> 20, would_repeat |-> "no"],
       [decision_type |-> "health", importance |-> "low", decision_speed |-> "slow",
        confidence |-> 50, expectation_comparison |-> "much_worse",
        surprise_score |-> 100, would_repeat |-> "yes"],
       [decision_type |-> "personal", importance |-> "high", decision_speed |-> "quick",
        confidence |-> 90, expectation_comparison |-> "as_expected",
        surprise_score |-> 0, would_repeat |-> "no"],
       [decision_type |-> "finance", importance |-> "medium", decision_speed |-> "moderate",
        confidence |-> 50, expectation_comparison |-> "as_expected",
        surprise_score |-> 0, would_repeat |-> "yes"],
       [decision_type |-> "finance", importance |-> "medium", decision_speed |-> "moderate",
        confidence |-> 90, expectation_comparison |-> "much_worse",
        surprise_score |-> 16, would_repeat |-> "no"],
       [decision_type |-> "finance", importance |-> "medium", decision_speed |-> "moderate",
        confidence |-> 50, expectation_comparison |-> "as_expected",
        surprise_score |-> 15, would_repeat |-> "yes"],
       [decision_type |-> "finance", importance |-> "medium", decision_speed |-> "moderate",
        confidence |-> 70, expectation_comparison |-> "as_expected",
        surprise_score |-> 8, would_repeat |-> "unsure"],
       [decision_type |-> "personal", importance |-> "low", decision_speed |-> "slow",
        confidence |-> 39, expectation_comparison |-> "much_worse",
        surprise_score |-> 0, would_repeat |-> "yes"],
       [decision_type |-> "personal", importance |-> "low", decision_speed |-> "slow",
        confidence |-> 0, expectation_comparison |-> "slightly_better",
        surprise_score |-> 0, would_repeat |-> "yes"],
       [decision_type |-> "personal", importance |-> "low", decision_speed |-> "slow",
        confidence |-> 39, expectation_comparison |-> "slightly_worse",
        surprise_score |-> 0, would_repeat |-> "yes"],
       [decision_type |-> "other", importance |-> "medium", decision_speed |-> "moderate",
        confidence |-> 39, expectation_comparison |-> "as_expected",
        surprise_score |-> 0, would_repeat |-> "yes"],
       [decision_type |-> "other", importance |-> "medium", decision_speed |-> "moderate",
        confidence |-> 40, expectation_comparison |-> "as_expected",
        surprise_score |-> 0, would_repeat |-> "yes"],
       [decision_type |-> "other", importance |-> "medium", decision_speed |-> "moderate",
        confidence |-> 0, expectation_comparison |-> "slightly_better",
        surprise_score |-> 0, would_repeat |-> "yes"],
       [decision_type |-> "other", importance |-> "medium", decision_speed |-> "moderate",
        confidence |-> 100, expectation_comparison |-> "much_worse",
        surprise_score |-> 0, would_repeat |-> "yes"],
       [decision_type |-> "other", importance |-> "medium", decision_speed |-> "moderate",
        confidence |-> 59, expectation_comparison |-> "better",
        surprise_score |-> 0, would_repeat |-> NoAnswer],
       [decision_type |-> "other", importance |-> "medium", decision_speed |-> "moderate",
        confidence |-> 60, expectation_comparison |-> "much_better",
        surprise_score |-> 0, would_repeat |-> "unsure"],
       [decision_type |-> "other", importance |-> "medium", decision_speed |-> "moderate",
        confidence |-> 79, expectation_comparison |-> "as_expected",
        surprise_score |-> 0, would_repeat |-> "no"],
       [decision_type |-> "other", importance |-> "medium", decision_speed |-> "moderate",
        confidence |-> 80, expectation_comparison |-> "much_better",
        surprise_score |-> 0, would_repeat |-> "yes"] >>

MaxFirst  == 8
MaxSecond == 1
MaxThird  == 3
MaxFourth == 3
MaxPairs  == 12
MaxExtra  == 1

\* the kinds of the reviewed decisions, in the order they were logged
Shape(a, b, c, d) ==
    [i \in 1..(a + b + c + d) |->
        IF i <= a THEN 1 ELSE IF i <= a + b THEN 2 ELSE IF i <= a + b + c THEN 3 ELSE 4]

DecisionOf(id, kind) ==
    [id |-> id, confidence |-> Kinds[kind].confidence,
     decision_type |-> Kinds[kind].decision_type,
     importance |-> Kinds[kind].importance,
     decision_speed |-> Kinds[kind].decision_speed]

ReviewOf(id, kind, at) ==
    [decision_id |-> StringOfId(id),
     expectation_comparison |-> Kinds[kind].expectation_comparison,
     surprise_score |-> Kinds[kind].surprise_score,
     would_repeat |-> Kinds[kind].would_repeat,
     reviewed_at |-> at]

\* decisions 1..n reviewed in the order logged (all at one instant when
\* sameInstant), then x decisions never reviewed, and x reviews left behind
\* by decisions no longer stored
StoredDecisions(shape, x) ==
    [i \in 1..Len(shape) |-> DecisionOf(i, shape[i])]
        \o [j \in 1..x |-> DecisionOf(Len(shape) + j, 3)]

StoredReviews(shape, x, sameInstant) ==
    [i \in 1..Len(shape) |-> ReviewOf(i, shape[i], IF sameInstant THEN 0 ELSE i)]
        \o [j \in 1..x |-> ReviewOf(Len(shape) + x + j, 3, 0)]

NoResult == [none |-> TRUE]

Init ==
    /\ \E a \in 0..MaxFirst, b \in 0..MaxSecond, c \in 0..MaxThird, d \in 0..MaxFourth,
          x \in 0..MaxExtra, sameInstant \in BOOLEAN :
          /\ a + b + c + d <= MaxPairs
          /\ decisions = StoredDecisions(Shape(a, b, c, d), x)
          /\ reviews = StoredReviews(Shape(a, b, c, d), x, sameInstant)
    /\ nextId = Len(decisions) + Len(reviews) + 1
    /\ forms = <<>>
    /\ result = NoResult
    /\ view = "loading"

\* LoadInsights with the confidences sorted in the decisions list itself
\* instead of in a copy
LoadInsightsSortingInPlace ==
    /\ view = "loading"
    /\ result' = generateInsights(decisions, reviews)
    /\ view' = IF result'.reviewCount < result'.minimumReviewsNeeded THEN "forming" ELSE "insights"
    /\ decisions' =
          LET n == Len(decisions)
              place == [i \in 1..n |->
                           Cardinality({j \in 1..n :
                               \/ decisions[j].confidence < decisions[i].confidence
                               \/ decisions[j].confidence = decisions[i].confidence /\ j < i}) + 1]
          IN  [k \in 1..n |-> decisions[CHOOSE i \in 1..n : place[i] = k]]
    /\ UNCHANGED <<reviews, nextId, forms>>

\* InsightsView.loadInsights, then the page it renders
LoadInsights ==
    /\ view = "loading"
    /\ result' = generateInsights(decisions, reviews)
    /\ view' = IF result'.reviewCount < result'.minimumReviewsNeeded THEN "forming" ELSE "insights"
    /\ UNCHANGED <<decisions, reviews, nextId, forms>>

Next == LoadInsights

Spec == Init /\ [][Next]_vars

-----------------------------------------------------------------------------
(* The insights page over records at the edges: a segment of up to seven    *)
(* reviewed decisions whose lifts fall on or beside the thresholds of the   *)
(* segment miner, beside a background of other reviewed decisions with      *)
(* confidences at the ends of the bands, an expectation_comparison that     *)
(* OUTCOME_SCORE_MAP does not know and a review without would_repeat.       *)

MaxWorst  == 4
MaxBetter == 2
MaxSlight == 1

\* the kinds of the reviewed decisions beside the segment
Backgrounds ==
    << <<>>, <<5, 5, 5>>, <<12, 13, 13>>, <<14, 15, 15>>, <<16, 17, 18, 19>>,
       <<13, 15, 16, 17, 18, 19>> >>

\* worst decisions of kind 9, then better of kind 10, then slight of kind 11,
\* then the background, reviewed in this order
EdgeKinds(worst, better, slight, background) ==
    [i \in 1..worst |-> 9] \o [i \in 1..better |-> 10] \o [i \in 1..slight |-> 11]
        \o background

EdgeInit ==
    /\ \E worst \in 0..MaxWorst, better \in 0..MaxBetter, slight \in 0..MaxSlight,
          b \in 1..Len(Backgrounds) :
          LET kinds == EdgeKinds(worst, better, slight, Backgrounds[b])
          IN  /\ decisions = [i \in 1..Len(kinds) |-> DecisionOf(i, kinds[i])]
              /\ reviews = [i \in 1..Len(kinds) |-> ReviewOf(i, kinds[i], i)]
    /\ nextId = Len(decisions) + 1
    /\ forms = <<>>
    /\ result = NoResult
    /\ view = "loading"

EdgeSpec == EdgeInit /\ [][Next]_vars

-----------------------------------------------------------------------------
(* derive on its own, over lists in any order: the decisions as logged or   *)
(* newest first, the reviews with any decision_id of a stored decision or   *)
(* of none, several for one decision included, at any of a few instants.    *)

MaxDecisions == 3
MaxReviews   == 3
MaxInstant   == 1

DeriveInit ==
    /\ \E n \in 0..MaxDecisions, newestFirst \in BOOLEAN :
          decisions = [i \in 1..n |->
                          DecisionOf(IF newestFirst THEN n + 1 - i ELSE i, (i % Len(Kinds)) + 1)]
    /\ \E m \in 0..MaxReviews :
          \E of \in [1..m -> 1..(MaxDecisions + 1)], at \in [1..m -> 0..MaxInstant] :
              reviews = [j \in 1..m |-> ReviewOf(of[j], (j % Len(Kinds)) + 1, at[j])]
    /\ nextId = MaxDecisions + 2
    /\ forms = <<>>
    /\ result = NoResult
    /\ view = "loading"

\* derive(decisions, reviews)
Derive ==
    /\ view = "loading"
    /\ result' = derive(decisions, reviews)
    /\ view' = "derived"
    /\ UNCHANGED <<decisions, reviews, nextId, forms>>

DeriveSpec == DeriveInit /\ [][Derive]_vars

-----------------------------------------------------------------------------
(* derive over reviewed decisions with the confidences at the ends of the   *)
(* bands and with any text as expectation_comparison: the five of the form, *)
(* one the map does not know, and names of properties that every object     *)
(* has.  importDatabase stores the records of a file as they are.           *)

MaxLookups == 2

EdgeConfidences == <<0, 39, 40, 59, 60, 79, 80, 100>>
Comparisons ==
    <<"much_worse", "slightly_worse", "as_expected", "slightly_better", "much_better",
      "better", "constructor", "toString">>

\* n reviewed decisions: the i-th has the confidence c + i and the
\* comparison e + 3 i places on in the tables, going round
LookupInit ==
    /\ \E n \in 1..MaxLookups, c \in 1..Len(EdgeConfidences), e \in 1..Len(Comparisons) :
          /\ decisions =
                [i \in 1..n |->
                    [id |-> i, confidence |-> EdgeConfidences[((c + i) % Len(EdgeConfidences)) + 1],
                     decision_type |-> "other", importance |-> "low",
                     decision_speed |-> "quick"]]
          /\ reviews =
                [i \in 1..n |->
                    [decision_id |-> StringOfId(i),
                     expectation_comparison |-> Comparisons[((e + 3 * i) % Len(Comparisons)) + 1],
                     surprise_score |-> 0, would_repeat |-> "yes", reviewed_at |-> i]]
    /\ nextId = Len(decisions) + 1
    /\ forms = <<>>
    /\ result = NoResult
    /\ view = "loading"

LookupSpec == LookupInit /\ [][Derive]_vars

-----------------------------------------------------------------------------
(* mineSegments on its own, over up to 8 segments of 5 or 6 reviewed        *)
(* decisions each, more than the six it returns.                            *)

MaxSegments == 8
MaxTwist    == 5
MaxSixes    == 2

\* the reviewed decisions of segments 1..k, segment after segment: segment s
\* is that of the candidate at place 37 * s of the loops (so that the
\* segments are spread over types, importances, speeds and bands), has 6
\* pairs if s <= sixes and 5 otherwise, of which the first (s * twist) % 6
\* came out much better than expected and the others as expected; none
\* would be repeated
Sampled(k, twist, sixes) ==
    LET size(s)  == IF s <= sixes THEN 6 ELSE 5
        first(s) == 5 * (s - 1) + (IF s - 1 < sixes THEN s - 1 ELSE sixes)
        seg(i)   == CHOOSE s \in 1..k : first(s) < i /\ i <= first(s) + size(s)
        cand(i)  == Candidates[((37 * seg(i)) % Len(Candidates)) + 1]
        conf(b)  == CASE b = "low" -> 20 [] b = "mid" -> 50 [] b = "high" -> 70 [] OTHER -> 90
    IN  [i \in 1..(5 * k + (IF k < sixes THEN k ELSE sixes)) |->
            [decision |-> [id |-> i, confidence |-> conf(cand(i).band),
                           decision_type |-> cand(i).type, importance |-> cand(i).imp,
                           decision_speed |-> cand(i).spd],
             review |-> [decision_id |-> StringOfId(i),
                         expectation_comparison |->
                             IF i - first(seg(i)) <= (seg(i) * twist) % 6
                             THEN "much_better" ELSE "as_expected",
                         surprise_score |-> 0, would_repeat |-> "no", reviewed_at |-> i]]]

SegmentInit ==
    /\ \E k \in 0..MaxSegments, twist \in 0..MaxTwist, sixes \in 0..MaxSixes :
          /\ decisions = [i \in DOMAIN Sampled(k, twist, sixes) |-> Sampled(k, twist, sixes)[i].decision]
          /\ reviews = [i \in DOMAIN Sampled(k, twist, sixes) |-> Sampled(k, twist, sixes)[i].review]
    /\ nextId = Len(decisions) + 1
    /\ forms = <<>>
    /\ result = NoResult
    /\ view = "loading"

\* mineSegments(derived, baseline) as generateInsights calls it
MineSegments ==
    /\ view = "loading"
    /\ result' = mineSegments(derive(decisions, reviews),
                              computeBaselines(derive(decisions, reviews)))
    /\ view' = "segments"
    /\ UNCHANGED <<decisions, reviews, nextId, forms>>

SegmentSpec == SegmentInit /\ [][MineSegments]_vars

-----------------------------------------------------------------------------
(* The trend stage, on its own and inside generateInsights, over histories *)
(* of up to 24 reviewed decisions, reviewed in the order logged.           *)

MaxTrendPairs == 24
MaxWorse      == 2
MaxMild       == 3
MaxEarlier    == 1

\* the kinds of a history of n decisions whose last w are the recent window:
\* the recent window ends with mild misses and then much worse ones and is
\* otherwise of the kind fill, the window before it ends with e much worse
\* ones, everything else is calm
History(n, w, worse, mild, e, fill) ==
    [i \in 1..n |->
        IF i > n - worse THEN 6
        ELSE IF i > n - worse - mild THEN 8
        ELSE IF i > n - w THEN fill
        ELSE IF i > n - w - e THEN 6
        ELSE 5]

TrendInit ==
    /\ \E n \in 0..MaxTrendPairs, worse \in 0..MaxWorse, mild \in 0..MaxMild,
          e \in 0..MaxEarlier, fill \in {5, 7} :
          LET w == IF TrendWindow < n \div 2 THEN TrendWindow ELSE n \div 2
              h == History(n, w, worse, mild, e, fill)
          IN  /\ worse + mild <= w
              /\ e <= w
              /\ decisions = [i \in 1..n |-> DecisionOf(i, h[i])]
              /\ reviews = [i \in 1..n |-> ReviewOf(i, h[i], i)]
    /\ nextId = Len(decisions) + 1
    /\ forms = <<>>
    /\ result = NoResult
    /\ view = "loading"

\* analyzeTrends(derive(decisions, reviews))
AnalyzeTrends ==
    /\ view = "loading"
    /\ result' = analyzeTrends(derive(decisions, reviews))
    /\ view' = "trends"
    /\ UNCHANGED <<decisions, reviews, nextId, forms>>

TrendNext == LoadInsights \/ AnalyzeTrends

TrendSpec == TrendInit /\ [][TrendNext]_vars

-----------------------------------------------------------------------------
(* The two tables behind the repositories, and the review pages.  Dexie     *)
(* generates the primary keys ('++id'): they are numbers, and a key that is *)
(* a number never equals a key that is a string.  A key is written          *)
(* [number |-> n] or [string |-> s] here.  No index of the schema is        *)
(* unique but the primary keys.                                             *)

\* the places of rows whose primary key equals key
StoredUnder(rows, key) == {i \in 1..Len(rows) : [number |-> rows[i].id] = key}

MaxStored == 2
MaxSaved  == 2
MaxForms  == 2

\* DecisionRepository.getById: db.decisions.get(Number(id))
getById(rows, id) ==
    LET numbers == {n \in 0..(MaxStored + 1) : StringOfId(n) = id}
        at      == StoredUnder(rows, [number |-> IF numbers = {} THEN FNaN
                                                 ELSE CHOOSE n \in numbers : TRUE])
    IN  IF at = {} THEN Undefined ELSE rows[CHOOSE i \in at : TRUE]

AppInit ==
    /\ decisions = <<>>
    /\ reviews = <<>>
    /\ nextId = 1
    /\ forms = [f \in 1..MaxForms |->
                    [decision |-> Undefined, error |-> "", submitting |-> FALSE,
                     completed |-> FALSE, saving |-> Null]]
    /\ result = NoResult
    /\ view = "loading"

\* DecisionCaptureForm.handleSubmit with a valid form:
\* DecisionRepository.create, which returns String(id)
CreateDecision ==
    /\ Len(decisions) < MaxStored
    /\ \E kind \in {5, 6} : decisions' = Append(decisions, DecisionOf(nextId, kind))
    /\ nextId' = nextId + 1
    /\ result' = [created |-> StringOfId(nextId)]
    /\ UNCHANGED <<reviews, forms, view>>

\* /due/[id] is opened: ReviewDecisionForm is mounted for the id of the
\* address and loads the decision; a form not found shows its error.  The
\* error null of the source is the empty text here, and a page not yet
\* opened is a form with no decision.
OpenReview ==
    \E f \in 1..MaxForms, n \in 1..MaxStored :
        /\ forms[f].saving = Null
        /\ forms' = [forms EXCEPT ![f] =
                        [decision |-> getById(decisions, StringOfId(n)),
                         error |-> IF getById(decisions, StringOfId(n)) = Undefined
                                   THEN "Decision not found" ELSE "",
                         submitting |-> FALSE, completed |-> FALSE, saving |-> Null]]
        /\ result' = NoResult
        /\ UNCHANGED <<decisions, reviews, nextId, view>>

\* ReviewDecisionForm.handleSubmit up to its await; the form is rendered,
\* with its button enabled, when a decision is loaded, no error is shown,
\* the review is not completed and no submission is under way
SubmitReview ==
    \E f \in 1..MaxForms, valid \in BOOLEAN, kind \in {5, 6}, at \in 0..MaxInstant :
        /\ forms[f].decision # Undefined
        /\ forms[f].error = ""
        /\ ~forms[f].completed
        /\ ~forms[f].submitting
        /\ Len(reviews) + Cardinality({g \in 1..MaxForms : forms[g].saving # Null})
              < MaxSaved
        /\ forms' = [forms EXCEPT ![f] =
                        IF valid
                        THEN [@ EXCEPT !.submitting = TRUE,
                                       !.saving = ReviewOf(forms[f].decision.id, kind, at)]
                        ELSE [@ EXCEPT !.error = "Please describe what actually happened"]]
        /\ result' = NoResult
        /\ UNCHANGED <<decisions, reviews, nextId, view>>

\* ReviewRepository.create resolves (db.reviews.add), and handleSubmit goes on
SaveReview ==
    \E f \in 1..MaxForms :
        /\ forms[f].saving # Null
        /\ reviews' = Append(reviews, forms[f].saving)
        /\ forms' = [forms EXCEPT ![f] =
                        [@ EXCEPT !.completed = TRUE, !.submitting = FALSE, !.saving = Null]]
        /\ result' = NoResult
        /\ UNCHANGED <<decisions, nextId, view>>

\* DecisionRepository.delete(id) for an id that create returned:
\* db.decisions.delete(id), then db.reviews.where('decision_id').equals(id).delete()
DeleteDecision ==
    \E n \in 1..(nextId - 1) :
        /\ decisions' = SelectSeq(decisions,
                                  LAMBDA d : StoredUnder(<<d>>, [string |-> StringOfId(n)]) = {})
        /\ reviews' = SelectSeq(reviews, LAMBDA r : r.decision_id # StringOfId(n))
        /\ result' = [deleted |-> StringOfId(n)]
        /\ UNCHANGED <<nextId, forms, view>>

AppNext == CreateDecision \/ OpenReview \/ SubmitReview \/ SaveReview \/ DeleteDecision

AppSpec == AppInit /\ [][AppNext]_vars

-----------------------------------------------------------------------------
(* DecisionRepository.getDueForReview over stored tables.  Time is counted *)
(* in half days: the day of the instant t starts at t - t % 2.             *)

MaxDate == 2

\* the decisions in primary key order, each with a review_date, and one
\* review for each decision_id of a set: of stored decisions and of none
DueInit ==
    /\ \E n \in 0..MaxDecisions :
          \E date \in [1..n -> 0..MaxDate] :
              decisions = [i \in 1..n |-> DecisionOf(i, 5) @@ [review_date |-> date[i]]]
    /\ \E reviewed \in SUBSET (1..(MaxDecisions + 1)) :
          reviews = SelectSeq([i \in 1..(MaxDecisions + 1) |-> ReviewOf(i, 5, i)],
                              LAMBDA r : r.reviewed_at \in reviewed)
    /\ nextId = MaxDecisions + 2
    /\ forms = <<>>
    /\ result = NoResult
    /\ view = "loading"

\* GetDueForReview without now.setHours(0, 0, 0, 0)
GetDueForReviewUpToNow ==
    /\ view = "loading"
    /\ \E now \in 0..(MaxDate + 1) :
          LET sorted(s) ==
                  [k \in 1..Len(s) |->
                      s[CHOOSE i \in 1..Len(s) :
                          Cardinality({j \in 1..Len(s) :
                              \/ s[j].review_date < s[i].review_date
                              \/ s[j].review_date = s[i].review_date /\ j < i}) = k - 1]]
              dueDecisions == SelectSeq(sorted(decisions), LAMBDA d : d.review_date <= now)
              reviewedDecisionIds == {reviews[j].decision_id : j \in 1..Len(reviews)}
          IN  result' = [now |-> now,
                         due |-> sorted(SelectSeq(dueDecisions,
                                     LAMBDA d : StringOfId(d.id) \notin reviewedDecisionIds))]
    /\ view' = "due"
    /\ UNCHANGED <<decisions, reviews, nextId, forms>>

\* DecisionRepository.getDueForReview at the instant now.  sorted is the
\* stable sort by review_date: of the table, whose rows are in primary key
\* order, it gives the order of the index review_date, which the query
\* follows up to the start of the day; the rows whose String(id) is a
\* decision_id of the reviews table are left out and the rest is sorted.
GetDueForReview ==
    /\ view = "loading"
    /\ \E now \in 0..(MaxDate + 1) :
          LET sorted(s) ==
                  [k \in 1..Len(s) |->
                      s[CHOOSE i \in 1..Len(s) :
                          Cardinality({j \in 1..Len(s) :
                              \/ s[j].review_date < s[i].review_date
                              \/ s[j].review_date = s[i].review_date /\ j < i}) = k - 1]]
              dueDecisions == SelectSeq(sorted(decisions), LAMBDA d : d.review_date <= now - (now % 2))
              reviewedDecisionIds == {reviews[j].decision_id : j \in 1..Len(reviews)}
          IN  result' = [now |-> now,
                         due |-> sorted(SelectSeq(dueDecisions,
                                     LAMBDA d : StringOfId(d.id) \notin reviewedDecisionIds))]
    /\ view' = "due"
    /\ UNCHANGED <<decisions, reviews, nextId, forms>>

DueSpec == DueInit /\ [][GetDueForReview]_vars

-----------------------------------------------------------------------------------------------------------------------------------------------------
(* Properties                                                              *)

Shown == view # "loading"

\* what derive makes of the stored tables
Derived == derive(decisions, reviews)

CardIds(cards) == {cards[i].id : i \in 1..Len(cards)}
SegmentIds == {SegmentId(Candidates[k]) : k \in 1..Len(Candidates)}
TrendIds   == {"trend-outcome", "trend-surprise", "trend-calibration"}

Reverse(s) == [i \in 1..Len(s) |-> s[Len(s) + 1 - i]]
RemoveAt(s, i) == SubSeq(s, 1, i - 1) \o SubSeq(s, i + 1, Len(s))

\* a binary64 number, not NaN and not an absent value
Number(v) == DOMAIN v = {"neg", "m", "e"}
F100 == FFromInt(100)

\* the entries of decisions whose String(id) is the decision_id of a review
MatchedDecisions ==
    {i \in 1..Len(decisions) :
        \E j \in 1..Len(reviews) : reviews[j].decision_id = StringOfId(decisions[i].id)}

\* C1: reviewCount equals baseline.reviewCount and the number of decisions
\* with at least one matching review, and never exceeds the number of
\* decisions.
C1_ReviewCount ==
    Shown => /\ result.reviewCount = result.baseline.reviewCount
             /\ result.reviewCount = Cardinality(MatchedDecisions)
             /\ result.reviewCount <= Len(decisions)

\* a result over reviewed decisions, a decision without review and a review
\* without decision
C1_Witness ==
    /\ Shown
    /\ result.reviewCount >= 3
    /\ result.reviewCount < Len(decisions)
    /\ result.reviewCount < Len(reviews)

\* C2: no card below 3 reviewed decisions; the calibration summary exactly
\* from 3 on; segment cards only from 8 on; trend cards only from 12 on.
C2_Gating ==
    Shown => LET ids == CardIds(result.cards)
                 rc  == result.reviewCount
             IN  /\ rc < 3 => result.cards = <<>>
                 /\ "calibration-summary" \in ids <=> rc >= 3
                 /\ ids \cap SegmentIds # {} => rc >= 8
                 /\ ids \cap TrendIds # {} => rc >= 12

\* all three stages contribute
C2_Witness ==
    /\ Shown
    /\ "calibration-summary" \in CardIds(result.cards)
    /\ CardIds(result.cards) \cap SegmentIds # {}
    /\ CardIds(result.cards) \cap TrendIds # {}

SameBaselineAndCards(r1, r2) == r1.baseline = r2.baseline /\ r1.cards = r2.cards

\* C3: the same decisions and the same reviews in another order (here: either
\* list reversed, or both) give the same baseline and the same cards, in the
\* same order, reviews of equal reviewed_at included.
C3_PermutationInsensitive ==
    Shown => /\ SameBaselineAndCards(result, generateInsights(Reverse(decisions), reviews))
             /\ SameBaselineAndCards(result, generateInsights(decisions, Reverse(reviews)))
             /\ SameBaselineAndCards(result, generateInsights(Reverse(decisions), Reverse(reviews)))

\* the pairs of dv in the segment (work, high, quick, confidence 90)
ScenarioSegment(dv) ==
    {i \in 1..Len(dv) :
        /\ dv[i].decision.decision_type = "work"
        /\ dv[i].decision.importance = "high"
        /\ dv[i].decision.decision_speed = "quick"
        /\ dv[i].decision.confidence = 90}

\* exactly 5 pairs of dv are in the segment, all with would_repeat 'no'
ScenarioIn(dv) ==
    /\ Cardinality(ScenarioSegment(dv)) = 5
    /\ \A i \in ScenarioSegment(dv) : dv[i].review.would_repeat = "no"

\* at least 8 reviewed decisions, exactly 5 of them in the segment, all of
\* these with would_repeat 'no'
ScenarioC == Shown /\ result.reviewCount >= 8 /\ ScenarioIn(Derived)

\* the card of the segment is returned with one of the strengths and with
\* repeatRate evidence 0
ScenarioCard(strengths) ==
    \E i \in 1..Len(result.cards) :
        /\ result.cards[i].id = "seg-work-high-quick-very_high"
        /\ result.cards[i].strength \in strengths
        /\ \E j \in 1..Len(result.cards[i].evidence) :
              /\ result.cards[i].evidence[j].metric = "repeatRate"
              /\ result.cards[i].evidence[j].value = F0

HalfEven(num, den) ==
    IF 2 * (num % den) < den THEN num \div den
    ELSE IF 2 * (num % den) > den THEN num \div den + 1
    ELSE IF (num \div den) % 2 = 0 THEN num \div den ELSE num \div den + 1

\* the calibration error of a derived pair in tenths: |confProb - outcomeProb|
\* for the decimal values written in the source
ErrorTenths(d) ==
    LET c == CASE d.confBand = "low" -> 3 [] d.confBand = "mid" -> 5
               [] d.confBand = "high" -> 7 [] OTHER -> 9
        o == IF d.outcomeScore > 0 THEN 10 ELSE IF d.outcomeScore = 0 THEN 5 ELSE 0
    IN  IF c < o THEN o - c ELSE c - o

\* the sums whose quotients by the number of pairs are the three means, in
\* hundredths
OutcomeHundredths(dv)  == 100 * SumInts(OutcomeScores(dv))
SurpriseHundredths(dv) == 100 * SumInts(SurpriseScores(dv))
ErrorHundredths(dv)    == 10 * SumInts([i \in 1..Len(dv) |-> ErrorTenths(dv[i])])

\* the three means of dv rounded to hundredths, halves to even
HalfToEvenOf(dv) ==
    [avgOutcomeScore |-> FLit(HalfEven(OutcomeHundredths(dv), Len(dv)), 100),
     avgSurprise |-> FLit(HalfEven(SurpriseHundredths(dv), Len(dv)), 100),
     avgCalibrationError |-> FLit(HalfEven(ErrorHundredths(dv), Len(dv)), 100)]

\* C5 as claimed: each baseline average is the arithmetic mean rounded to
\* two decimal places, a mean halfway between two hundredths going to the
\* even hundredth.
C5_HalfToEven ==
    Shown /\ result.reviewCount > 0 =>
        [f \in {"avgOutcomeScore", "avgSurprise", "avgCalibrationError"} |-> result.baseline[f]]
            = HalfToEvenOf(Derived)

\* value is k/100 for the integer k with k - 1/2 <= mean * 100 < k + 1/2,
\* the product taken in binary64; k lies next to floor of the exact quotient
HalfUpOf(value, mean, hundredths, n) ==
    \E k \in (hundredths \div n - 1)..(hundredths \div n + 2) :
        /\ value = FLit(k, 100)
        /\ FLe(FLit(2 * k - 1, 2), FMulS(mean, 100))
        /\ FLt(FMulS(mean, 100), FLit(2 * k + 1, 2))

\* C5 as amended: each baseline average is Math.round(mean * 100) / 100 for
\* the mean computed in binary64: a product halfway between two integers
\* goes to the higher one (0.125 gives 0.13, -0.125 gives -0.12).
HalfUpAll(baseline, dv) ==
    /\ HalfUpOf(baseline.avgOutcomeScore, MeanOutcome(dv), OutcomeHundredths(dv), Len(dv))
    /\ HalfUpOf(baseline.avgSurprise, MeanSurprise(dv), SurpriseHundredths(dv), Len(dv))
    /\ HalfUpOf(baseline.avgCalibrationError, MeanCalError(dv), ErrorHundredths(dv), Len(dv))

C5_HalfUp == Shown /\ result.reviewCount > 0 => HalfUpAll(result.baseline, Derived)

\* a mean outcome of exactly 0.125 reported as 0.13
C5_Witness ==
    /\ Shown
    /\ result.reviewCount > 0
    /\ FMulS(MeanOutcome(Derived), 100) = FLit(25, 2)
    /\ result.baseline.avgOutcomeScore = FLit(13, 100)

\* 1e-9
Tolerance == FDivS(FDivS(FDivS(F1, 1000), 1000), 1000)

\* C6: in every segment card, each evidence entry with a lift has
\* lift = value - baseline within 1e-9.
C6_LiftIsValueMinusBaseline ==
    Shown =>
        \A i \in 1..Len(result.cards) :
            result.cards[i].id \in SegmentIds =>
                \A j \in 1..Len(result.cards[i].evidence) :
                    LET e == result.cards[i].evidence[j]
                    IN  e.lift # Undefined =>
                            FLe(FAbs(FSub(e.lift, FSub(e.value, e.baseline))), Tolerance)

NonTrendCards(cards) == SelectSeq(cards, LAMBDA c : c.id \notin TrendIds)

\* C7: from 12 reviewed decisions on, the cards other than trend cards are
\* the calibration summary followed by the segment cards, as without the
\* trend stage; and a result over 8 reviewed decisions keeps every card
\* (by id) of the result over any 7 of them and has only segment cards more.
C7_MonotonicGating ==
    Shown =>
        /\ result.reviewCount >= 12 =>
              NonTrendCards(result.cards)
                  = <<calibrationSummary(Derived, result.baseline)>>
                        \o mineSegments(Derived, result.baseline)
        /\ result.reviewCount = 8 =>
              \A i \in MatchedDecisions :
                  LET at7 == generateInsights(RemoveAt(decisions, i), reviews)
                  IN  /\ at7.reviewCount = 7
                      /\ CardIds(at7.cards) \subseteq CardIds(result.cards)
                      /\ CardIds(result.cards) \ CardIds(at7.cards) \subseteq SegmentIds

\* trend cards beside segment cards
C7_Witness ==
    /\ Shown
    /\ result.reviewCount >= 12
    /\ CardIds(result.cards) \cap TrendIds # {}
    /\ Len(NonTrendCards(result.cards)) >= 2

Summaries == <<result.confidence, result.surprise, result.speed, result.repeat>>

C9_NothingReviewed ==
    Shown /\ MatchedDecisions = {} =>
        /\ result.reviewCount = 0
        /\ result.cards = <<>>
        /\ result.baseline = [reviewCount |-> 0, avgOutcomeScore |-> F0, avgSurprise |-> F0,
                              avgCalibrationError |-> F0]
        /\ \A k \in 1..4 : Summaries[k] = Null

\* decisions and reviews are stored, none of them match
C9_Witness ==
    /\ Shown
    /\ MatchedDecisions = {}
    /\ Len(decisions) > 0
    /\ Len(reviews) > 0

WellFormedEvidence(e) ==
    /\ e.n \in Nat
    /\ Number(e.value)
    /\ e.baseline = Undefined \/ Number(e.baseline)
    /\ e.lift = Undefined \/ Number(e.lift)

WellFormedCard(c) ==
    /\ c.id \in {"calibration-summary"} \cup SegmentIds \cup TrendIds
    /\ c.strength \in {"weak", "medium", "strong"}
    /\ Len(c.evidence) >= 1
    /\ \A j \in 1..Len(c.evidence) : WellFormedEvidence(c.evidence[j])

Rate(v) == Number(v) /\ FLe(F0, v) /\ FLe(v, F100)

WellFormedSummaries(r) ==
    /\ Number(r.confidence.averageConfidence)
    /\ r.confidence.wellCalibratedCount + r.confidence.overconfidentCount
          + r.confidence.underconfidentCount = r.reviewCount
    /\ Number(r.surprise.averageSurpriseScore)
    /\ r.surprise.mostSurprisedDomain # "undefined"
    /\ r.surprise.leastSurprisedDomain # "undefined"
    /\ Rate(r.speed.quickDecisionsRegretRate)
    /\ Rate(r.speed.moderateDecisionsRegretRate)
    /\ Rate(r.speed.slowDecisionsRegretRate)
    /\ Rate(r.repeat.repeatRate)
    /\ r.repeat.wouldRepeatCount + r.repeat.wouldNotRepeatCount + r.repeat.unsureCount
          = r.reviewCount

WellFormed(r) ==
    /\ r.reviewCount \in Nat
    /\ r.baseline.reviewCount \in Nat
    /\ Number(r.baseline.avgOutcomeScore)
    /\ Number(r.baseline.avgSurprise)
    /\ Number(r.baseline.avgCalibrationError)
    /\ \A i \in 1..Len(r.cards) : WellFormedCard(r.cards[i])
    /\ IF r.reviewCount >= r.minimumReviewsNeeded
       THEN WellFormedSummaries(r)
       ELSE r.confidence = Null /\ r.surprise = Null /\ r.speed = Null /\ r.repeat = Null

\* C10: whatever is stored, the answer of the engine is well formed: counts
\* are naturals, every number is a number (no NaN), every card has a known
\* id, a strength and evidence, the rates lie in 0..100.  (LoadInsights has
\* no guard but the page still loading: an input on which the engine had no
\* answer would stop the evaluation of the step.)
C10_Total == Shown => WellFormed(result)

\* a degenerate input: one kind of record only, all reviewed at one instant,
\* beside a review that matches no decision
C10_Witness ==
    /\ Shown
    /\ result.reviewCount >= 3
    /\ result.reviewCount < Len(reviews)
    /\ \A i, j \in 1..Len(reviews) : reviews[i].reviewed_at = reviews[j].reviewed_at
    /\ Cardinality({reviews[i].expectation_comparison : i \in 1..Len(reviews)}) = 1
    /\ WellFormed(result)

InsertAt(s, p, x) == SubSeq(s, 1, p) \o <<x>> \o SubSeq(s, p + 1, Len(s))

\* a decision no stored review points to: its id lies beyond every stored id
\* and every decision_id
UnreviewedDecision(kind) == DecisionOf(Len(decisions) + Len(reviews) + 1, kind)

\* C11: taking a decision without matching review out of the decisions list,
\* or putting one in, leaves the whole result of generateInsights (cards,
\* baseline, reviewCount, the four summaries) as it is.  The result is
\* compared for a decision taken out; generateInsights reads the two lists
\* through derive only, and for a decision put in, at any place, the
\* derived list is compared.
C11_UnreviewedFrame ==
    Shown =>
        /\ \A i \in (1..Len(decisions)) \ MatchedDecisions :
              generateInsights(RemoveAt(decisions, i), reviews) = result
        /\ \A derived \in {Derived} : \A p \in 0..Len(decisions) :
              derive(InsertAt(decisions, p, UnreviewedDecision((p % Len(Kinds)) + 1)), reviews)
                  = derived

\* a result with a segment card over a list that holds an unreviewed decision
C11_Witness ==
    /\ Shown
    /\ (1..Len(decisions)) \ MatchedDecisions # {}
    /\ result.reviewCount >= GATE_segments
    /\ CardIds(result.cards) \cap SegmentIds # {}

\* the places of result whose pair is of the decision d
PairsOf(d) == {k \in 1..Len(result) : result[k].decision = d}

\* C12: derive returns exactly one pair for each decision that has a
\* matching review, made of that decision and a review with its id, and none
\* for a decision without one; the list is ascending in reviewed_at.
C12_DeriveOnePairEachSorted ==
    view = "derived" =>
        /\ \A i \in 1..Len(decisions) :
              Cardinality(PairsOf(decisions[i])) = IF i \in MatchedDecisions THEN 1 ELSE 0
        /\ Len(result) = Cardinality(MatchedDecisions)
        /\ \A k \in 1..Len(result) :
              result[k].review.decision_id = StringOfId(result[k].decision.id)
        /\ \A k \in 1..(Len(result) - 1) :
              result[k].review.reviewed_at <= result[k + 1].review.reviewed_at

\* decisions listed newest first and reviewed in the order logged, one of
\* them never reviewed: derive has to turn the order round
C12_Witness ==
    /\ view = "derived"
    /\ Len(decisions) = 3
    /\ Len(result) = 2
    /\ decisions[1].id > decisions[3].id
    /\ result[1].review.reviewed_at < result[2].review.reviewed_at
    /\ result[1].decision.id < result[2].decision.id

\* the sum of the surprise scores of the pairs dv[from..to]
SurpriseSum(dv, from, to) == SumInts([i \in 1..(to - from + 1) |-> dv[from + i - 1].review.surprise_score])
OutcomeSum(dv, from, to)  == SumInts([i \in 1..(to - from + 1) |-> dv[from + i - 1].outcomeScore])
ErrorTenthsSum(dv, from, to) == SumInts([i \in 1..(to - from + 1) |-> ErrorTenths(dv[from + i - 1])])

\* the last 10 pairs of dv are more surprising than the 10 before them by
\* more than 15 points in the mean, that is by more than 150 in the sum
SurpriseUp(dv) ==
    /\ Len(dv) >= 20
    /\ SurpriseSum(dv, Len(dv) - 9, Len(dv)) - SurpriseSum(dv, Len(dv) - 19, Len(dv) - 10) > 150

StrongSurpriseUp(cards) ==
    \E k \in 1..Len(cards) :
        /\ cards[k].id = "trend-surprise"
        /\ cards[k].strength = "strong"
        /\ FGt(cards[k].evidence[1].value, F0)

\* C13: with 20 reviewed decisions or more, when the mean surprise_score of
\* the last 10 derived pairs exceeds that of the 10 pairs before them by more
\* than 15, the cards hold a 'trend-surprise' card of strength 'strong'
\* whose evidence value is positive.
C13_ScenarioD ==
    view = "insights" /\ SurpriseUp(Derived) => StrongSurpriseUp(result.cards)

\* 24 reviewed decisions, the mean surprise just above 15 points higher
C13_Witness ==
    /\ view = "insights"
    /\ result.reviewCount = 24
    /\ SurpriseSum(Derived, 15, 24) - SurpriseSum(Derived, 5, 14) = 151
    /\ StrongSurpriseUp(result.cards)

\* min(10, floor(n / 2))
WindowOf(n) == IF 10 < n \div 2 THEN 10 ELSE n \div 2

\* the pair at place i of dv replaced by a pair of another kind, reviewed at
\* the same instant
Replaced(dv, i, kind) ==
    [dv EXCEPT ![i] = DerivedOf(DecisionOf(dv[i].decision.id, kind),
                                ReviewOf(dv[i].decision.id, kind, dv[i].review.reviewed_at))]

TrendsOf(dv, trends) ==
    /\ WindowOf(Len(dv)) < 1 => trends = <<>>
    /\ Len(trends) <= 3
    /\ CardIds(trends) \subseteq TrendIds
    /\ Cardinality(CardIds(trends)) = Len(trends)
    /\ \A k \in 1..Len(trends) : trends[k].evidence[1].n = WindowOf(Len(dv))
    /\ \A i \in 1..(Len(dv) - 2 * WindowOf(Len(dv))), kind \in {6, 8} :
          analyzeTrends(Replaced(dv, i, kind)) = trends

\* C15: analyzeTrends returns no card for fewer than 2 pairs; otherwise it
\* returns at most three cards, at most one each of 'trend-outcome',
\* 'trend-surprise' and 'trend-calibration', each over the window
\* min(10, floor(n / 2)), and the cards are the same whatever the pairs older
\* than the last two windows are.
C15_TrendWindows == view = "trends" => TrendsOf(Derived, result)

\* trend cards over a history that has pairs older than the two windows
C15_Witness ==
    /\ view = "trends"
    /\ Len(decisions) = 23
    /\ Len(result) = 2
    /\ result[1].evidence[1].n = 10

Abs(x) == IF x < 0 THEN -x ELSE x

\* the card of trends with the given id is there iff emitted holds, and is
\* 'strong' iff strong holds, 'medium' otherwise
TrendDecided(trends, id, emitted, strong) ==
    /\ emitted <=> id \in CardIds(trends)
    /\ \A k \in 1..Len(trends) :
          trends[k].id = id => trends[k].strength = IF strong THEN "strong" ELSE "medium"

\* the three decisions on the differences between the sums over the last w
\* pairs and over the w pairs before them: a difference of means of 0.5 is a
\* difference of sums of w / 2, and so on (calibration errors in tenths)
TrendsDecided(trends, w, outcome, surprise, errorTenths) ==
    /\ TrendDecided(trends, "trend-outcome", 2 * Abs(outcome) >= w, Abs(outcome) > w)
    /\ TrendDecided(trends, "trend-surprise", Abs(surprise) >= 8 * w, Abs(surprise) > 15 * w)
    /\ TrendDecided(trends, "trend-calibration",
                    2 * Abs(errorTenths) >= w, 5 * Abs(errorTenths) > 6 * w)

TrendsDecidedOn(trends, dv, n, w) ==
    TrendsDecided(trends, w,
                  OutcomeSum(dv, n - w + 1, n) - OutcomeSum(dv, n - 2 * w + 1, n - w),
                  SurpriseSum(dv, n - w + 1, n) - SurpriseSum(dv, n - 2 * w + 1, n - w),
                  ErrorTenthsSum(dv, n - w + 1, n) - ErrorTenthsSum(dv, n - 2 * w + 1, n - w))

\* C20: on delta = (mean over tail) - (mean over prev), 'trend-outcome' is
\* emitted iff |delta| >= 0.5 and strong iff |delta| > 1, 'trend-surprise'
\* iff |delta| >= 8 and strong iff |delta| > 15, 'trend-calibration' iff
\* |delta| >= 0.05 and strong iff |delta| > 0.12; an emitted card that is not
\* strong is medium.
C20_TrendThresholds ==
    view = "trends" /\ Len(decisions) >= 2 =>
        TrendsDecidedOn(result, Derived, Len(Derived), WindowOf(Len(Derived)))

\* the cards of every qualifying segment, before the sort and the cut
Qualifying == SegmentsPushed(Derived, computeBaselines(Derived))

RankedTopSix(kept, pushed) ==
    /\ Len(kept) <= 6
    /\ \A i \in 1..(Len(kept) - 1) : FGe(LiftSum(kept[i]), LiftSum(kept[i + 1]))
    /\ \A j \in 1..Len(kept) : \E i \in 1..Len(pushed) : kept[j] = pushed[i]
    /\ \A i \in 1..Len(pushed) :
          pushed[i].id \notin CardIds(kept) =>
              \A j \in 1..Len(kept) : ~FGt(LiftSum(pushed[i]), LiftSum(kept[j]))

\* C14: mineSegments returns at most 6 cards, in non-increasing order of the
\* sum of the absolute values of their evidence lifts, and no qualifying
\* segment left out has a larger sum than a card that was kept.
C14_RankedTopSix == view = "segments" => RankedTopSix(result, Qualifying)

\* eight qualifying segments, six kept in another order than the loops
\* found them, one left out with a smaller sum than the last one kept
C14_Witness ==
    /\ view = "segments"
    /\ Len(Qualifying) = 8
    /\ Len(result) = 6
    /\ result # SubSeq(Qualifying, 1, 6)
    /\ \E i \in 1..8 : /\ Qualifying[i].id \notin CardIds(result)
                        /\ FLt(LiftSum(Qualifying[i]), LiftSum(result[6]))

\* 1 for the calibration summary, 2 for a segment card, 3 for a trend card
StageOf(card) ==
    IF card.id = "calibration-summary" THEN 1
    ELSE IF card.id \in SegmentIds THEN 2
    ELSE IF card.id \in TrendIds THEN 3
    ELSE 0

\* C16: the cards are the calibration-summary card (if any) first, then the
\* segment cards, then the trend cards: no card of another sort, nothing
\* before the calibration summary, no segment card after a trend card.
C16_CardOrder ==
    Shown =>
        /\ \A i \in 1..Len(result.cards) : StageOf(result.cards[i]) # 0
        /\ \A i \in 2..Len(result.cards) : StageOf(result.cards[i]) # 1
        /\ \A i \in 1..(Len(result.cards) - 1) :
              StageOf(result.cards[i]) <= StageOf(result.cards[i + 1])

\* the summary, then a segment card, then two trend cards or more
C16_Witness ==
    /\ Shown
    /\ Len(result.cards) >= 4
    /\ StageOf(result.cards[1]) = 1
    /\ StageOf(result.cards[2]) = 2
    /\ StageOf(result.cards[3]) = 3
    /\ StageOf(result.cards[4]) = 3

\* the reviews of the table whose decision_id is id
ReviewsOf(id) == {j \in 1..Len(reviews) : reviews[j].decision_id = id}

\* C17: whatever review pages are opened and submitted, in whatever
\* interleaving, the reviews table holds at most one review per decision_id.
C17_OneReviewPerDecision ==
    \A n \in 1..MaxStored : Cardinality(ReviewsOf(StringOfId(n))) <= 1

\* C18: once DecisionRepository.delete(id) has completed for an id that
\* create returned, getById(id) returns undefined and no review of the
\* table has the decision_id id.
C18_DeleteRemoves ==
    "deleted" \in DOMAIN result =>
        /\ getById(decisions, result.deleted) = Undefined
        /\ ReviewsOf(result.deleted) = {}

\* the places of the decisions due at the instant now: not to be reviewed
\* after the start of the day, and never reviewed
DueAt(now) ==
    {i \in 1..Len(decisions) :
        /\ decisions[i].review_date <= now - (now % 2)
        /\ ReviewsOf(StringOfId(decisions[i].id)) = {}}

\* C19: getDueForReview returns exactly the stored decisions whose
\* review_date is not after the start of the current day and that have no
\* review with decision_id = String(id), each once, in ascending order of
\* review_date.
C19_DueForReview ==
    view = "due" =>
        /\ {result.due[k] : k \in 1..Len(result.due)} = {decisions[i] : i \in DueAt(result.now)}
        /\ Len(result.due) = Cardinality(DueAt(result.now))
        /\ \A k \in 1..(Len(result.due) - 1) :
              result.due[k].review_date <= result.due[k + 1].review_date

\* two decisions due, the one logged later first; one left out because it
\* is reviewed, though its date has come
C19_Witness ==
    /\ view = "due"
    /\ Len(decisions) = 3
    /\ Len(result.due) = 2
    /\ result.due[1].id > result.due[2].id
    /\ \E i \in 1..3 : /\ decisions[i].review_date <= result.now - (result.now % 2)
                        /\ ReviewsOf(StringOfId(decisions[i].id)) # {}

\* the reviews with the instants of review turned round: what was reviewed
\* first is reviewed last
TurnedRound(rs) ==
    LET latest == SetMax({rs[j].reviewed_at : j \in 1..Len(rs)} \cup {0})
    IN  [j \in 1..Len(rs) |-> [rs[j] EXCEPT !.reviewed_at = latest - @]]

\* the sum and the number of the surprise scores of the derived pairs of a
\* decision type
TypeSurprise(dv, type) ==
    SumInts(SurpriseScores(SelectSeq(dv, LAMBDA d : d.decision.decision_type = type)))
TypeCount(dv, type) == Len(SelectSeq(dv, LAMBDA d : d.decision.decision_type = type))

\* the mean surprise of type t is not below that of type u
MeanNotBelow(dv, t, u) ==
    TypeSurprise(dv, t) * TypeCount(dv, u) >= TypeSurprise(dv, u) * TypeCount(dv, t)

\* C24: mostSurprisedDomain is a decision type of highest mean surprise,
\* leastSurprisedDomain one of lowest, and which of several tied types is
\* reported does not depend on the order of the records: the same decisions
\* with the same reviews, reviewed in the opposite order, give the same two
\* types.
C24_FixedTieOrder ==
    Shown /\ result.surprise # Null =>
        /\ \A u \in {Derived[i].decision.decision_type : i \in 1..Len(Derived)} :
              /\ MeanNotBelow(Derived, result.surprise.mostSurprisedDomain, u)
              /\ MeanNotBelow(Derived, u, result.surprise.leastSurprisedDomain)
        /\ generateInsights(decisions, TurnedRound(reviews)).surprise = result.surprise

\* the places of the reviews list with the decision_id id
WithDecisionId(id) == {j \in 1..Len(reviews) : reviews[j].decision_id = id}

\* the reviews list without the reviews that a later one of the same
\* decision_id follows
LastOfEach ==
    LET last == {j \in 1..Len(reviews) : j = SetMax(WithDecisionId(reviews[j].decision_id))}
    IN  [k \in 1..Cardinality(last) |->
            reviews[CHOOSE j \in last : Cardinality({i \in last : i < j}) = k - 1]]

\* C25: when several reviews share a decision_id, derive still has exactly
\* one pair for the decision with that id, its review is the last of them in
\* the reviews list, and the others change nothing: without them the derived
\* list, from which every statistic is computed, is the same.
C25_LastWriteWins ==
    view = "derived" =>
        /\ \A i \in 1..Len(decisions) :
              WithDecisionId(StringOfId(decisions[i].id)) # {} =>
                  /\ Cardinality(PairsOf(decisions[i])) = 1
                  /\ \A k \in PairsOf(decisions[i]) :
                        result[k].review
                            = reviews[SetMax(WithDecisionId(StringOfId(decisions[i].id)))]
        /\ derive(decisions, LastOfEach) = result

\* a stored decision with two reviews that differ, and a third review of
\* another decision between or beside them
C25_Witness ==
    /\ view = "derived"
    /\ Len(result) = 2
    /\ \E i \in 1..Len(decisions) :
          LET mine == WithDecisionId(StringOfId(decisions[i].id))
          IN  /\ Cardinality(mine) = 2
              /\ \E j \in mine : j # SetMax(mine) /\ reviews[j].would_repeat # reviews[SetMax(mine)].would_repeat
              /\ \A k \in PairsOf(decisions[i]) : result[k].review = reviews[SetMax(mine)]

\* the pairs of a derived list decided at speed s, and those of them whose
\* review answers would_repeat with 'no'
AtSpeed(dv, s) == {i \in 1..Len(dv) : dv[i].decision.decision_speed = s}
NoAgain(dv, s) == {i \in AtSpeed(dv, s) : dv[i].review.would_repeat = "no"}

\* rate is the whole percentage nearest to part out of whole, 0 for no whole
PercentageOf(rate, part, whole) ==
    IF whole = 0 THEN rate = F0
    ELSE \E k \in 0..100 :
            /\ Abs(2 * k * whole - 200 * part) <= whole
            /\ rate = FFromInt(k)

PlaceInLoops(card) == CHOOSE k \in 1..Len(Candidates) : SegmentId(Candidates[k]) = card.id

\* cards with pairwise distinct ids, those of equal sums in the order of the
\* loops, and no card of pushed left out for a card of the same sum that the
\* loops reach later
TiesInLoopOrder(kept, pushed) ==
    /\ \A i, j \in 1..Len(pushed) : i # j => pushed[i].id # pushed[j].id
    /\ \A i, j \in 1..Len(kept) : i # j => kept[i].id # kept[j].id
    /\ \A i, j \in 1..Len(kept) :
          i < j /\ LiftSum(kept[i]) = LiftSum(kept[j])
              => PlaceInLoops(kept[i]) < PlaceInLoops(kept[j])
    /\ \A i \in 1..Len(pushed), j \in 1..Len(kept) :
          pushed[i].id \notin CardIds(kept) /\ LiftSum(pushed[i]) = LiftSum(kept[j])
              => PlaceInLoops(kept[j]) < PlaceInLoops(pushed[i])

\* C30: the segment cards have pairwise distinct ids, one per combination of
\* type, importance, speed and band at most, and cards whose sums of absolute
\* evidence lifts are equal appear in the order in which the candidate loops
\* reach them (types personal, work, finance, health, other; importances low,
\* medium, high; speeds quick, moderate, slow; bands low, mid, high,
\* very_high), which also decides which of them are among the six kept.
C30_TiesInLoopOrder ==
    view = "segments" => \A pushed \in {Qualifying} : TiesInLoopOrder(result, pushed)

\* more than six qualifying segments, two kept cards of equal sums, and a
\* card left out whose sum equals that of the last card kept
C30_Witness ==
    /\ view = "segments"
    /\ Len(result) = 6
    /\ \E i, j \in 1..6 : i < j /\ LiftSum(result[i]) = LiftSum(result[j])
    /\ \E i, j \in 1..6 : FGt(LiftSum(result[i]), LiftSum(result[j]))
    /\ \A pushed \in {Qualifying} :
          \E i \in 1..Len(pushed) : /\ pushed[i].id \notin CardIds(result)
                                    /\ LiftSum(pushed[i]) = LiftSum(result[6])

\* a value of the baseline, which round has brought to hundredths, as a
\* number of hundredths
InHundredths(v) == NearestInt(FMulS(v, 100))

\* n times the distance, in hundredths, between the mean of n pairs whose
\* hundredths add up to sum and a value of the baseline
LiftTimes(sum, n, value) == Abs(sum - InHundredths(value) * n)

\* the test of the segment miner on the lifts and the repeat rate of a
\* segment, in the numbers that the decimal thresholds denote
InterestingAsWritten(seg, baseline) ==
    \/ LiftTimes(OutcomeHundredths(seg), Len(seg), baseline.avgOutcomeScore) >= 50 * Len(seg)
    \/ LiftTimes(SurpriseHundredths(seg), Len(seg), baseline.avgSurprise) >= 1200 * Len(seg)
    \/ LiftTimes(ErrorHundredths(seg), Len(seg), baseline.avgCalibrationError) >= 15 * Len(seg)
    \/ 2 * Cardinality({i \in 1..Len(seg) : seg[i].review.would_repeat = "yes"}) < Len(seg)

\* C21: when the segments are mined, a candidate (type, importance, speed,
\* band) has a card, before the cut to six, if and only if at least 5
\* derived pairs match it and |outcome lift| >= 0.5 or |surprise lift| >= 12
\* or |calibration error lift| >= 0.15 or its repeat rate is below 0.5, each
\* lift being the mean of the segment minus the value of the baseline.
C21_CardIffInteresting ==
    Shown /\ result.reviewCount >= GATE_segments =>
        \A dv \in {Derived} : \A baseline \in {computeBaselines(dv)} :
            \A k \in 1..Len(Candidates) :
                SegmentCards(dv, baseline, Candidates[k]) # <<>>
                    <=> /\ Len(SegmentOf(dv, Candidates[k])) >= GATE_segmentMinSamples
                        /\ InterestingAsWritten(SegmentOf(dv, Candidates[k]), baseline)

\* ten times the strength score of a segment times its size, in hundredths:
\* 2 |outcome lift| + |surprise lift| / 10 + 3 |calibration error lift|, and
\* 1 more from six pairs on
ScoreAsWritten(seg, baseline) ==
    20 * LiftTimes(OutcomeHundredths(seg), Len(seg), baseline.avgOutcomeScore)
        + LiftTimes(SurpriseHundredths(seg), Len(seg), baseline.avgSurprise)
        + 30 * LiftTimes(ErrorHundredths(seg), Len(seg), baseline.avgCalibrationError)
        + (IF Len(seg) >= 6 THEN 1000 * Len(seg) ELSE 0)

StrengthAsWritten(seg, baseline) ==
    IF ScoreAsWritten(seg, baseline) > 3000 * Len(seg) THEN "strong"
    ELSE IF ScoreAsWritten(seg, baseline) > 1200 * Len(seg) THEN "medium"
    ELSE "weak"

\* C22: the strength of every segment card follows the score
\* 2 |outcome lift| + |surprise lift| / 10 + 3 |calibration error lift|
\* + (1 if n >= 6): strong above 3, medium above 1.2 and up to 3, weak up to
\* 1.2.
C22_StrengthByScore ==
    Shown /\ result.reviewCount >= GATE_segments =>
        \A dv \in {Derived} : \A baseline \in {computeBaselines(dv)} :
            \A k \in 1..Len(Candidates) :
                \A card \in {SegmentCards(dv, baseline, Candidates[k])} :
                    card # <<>> =>
                        card[1].strength = StrengthAsWritten(SegmentOf(dv, Candidates[k]), baseline)

\* confProb and outcomeProb of a derived pair in tenths, for the decimal
\* values written in the source
ConfProbTenths(d) ==
    CASE d.confBand = "low" -> 3 [] d.confBand = "mid" -> 5
      [] d.confBand = "high" -> 7 [] OTHER -> 9
OutcomeProbTenths(d) == IF d.outcomeScore > 0 THEN 10 ELSE IF d.outcomeScore = 0 THEN 5 ELSE 0

\* "well", "over" or "under": the one class of a derived pair
CalibrationClass(d) ==
    IF 10 * Abs(ConfProbTenths(d) - OutcomeProbTenths(d)) <= 15 THEN "well"
    ELSE IF ConfProbTenths(d) > OutcomeProbTenths(d) THEN "over"
    ELSE "under"

InClass(dv, class) == Cardinality({i \in 1..Len(dv) : CalibrationClass(dv[i]) = class})

\* Scenario B: 3 decisions of confidence 50, each reviewed 'as_expected'
ScenarioB ==
    /\ Len(decisions) = 3
    /\ Len(reviews) = 3
    /\ \A i \in 1..3 : /\ decisions[i].confidence = 50
                       /\ reviews[i].decision_id = StringOfId(decisions[i].id)
                       /\ reviews[i].expectation_comparison = "as_expected"

Answered(dv, answers) ==
    Cardinality({i \in 1..Len(dv) : dv[i].review.would_repeat \in answers})

BandOf(confidence) ==
    CASE confidence \in 0..39 -> "low" [] confidence \in 40..59 -> "mid"
      [] confidence \in 60..79 -> "high" [] confidence \in 80..100 -> "very_high"
TenthsOfBand(band) ==
    CASE band = "low" -> 3 [] band = "mid" -> 5 [] band = "high" -> 7 [] band = "very_high" -> 9
ScoreOf(comparison) ==
    CASE comparison = "much_worse" -> -2 [] comparison = "slightly_worse" -> -1
      [] comparison = "as_expected" -> 0 [] comparison = "slightly_better" -> 1
      [] comparison = "much_better" -> 2 [] OTHER -> 0
TenthsOfScore(score) == IF score > 0 THEN 10 ELSE IF score = 0 THEN 5 ELSE 0

DerivedAsTabled(d) ==
    /\ d.confBand = BandOf(d.decision.confidence)
    /\ d.confProb = FLit(TenthsOfBand(BandOf(d.decision.confidence)), 10)
    \* compared as written out, since a score need not be a number
    /\ ToString(d.outcomeScore) = ToString(ScoreOf(d.review.expectation_comparison))
    /\ d.outcomeProb = FLit(TenthsOfScore(ScoreOf(d.review.expectation_comparison)), 10)
    /\ d.calibrationError = FAbs(FSub(d.confProb, d.outcomeProb))
    /\ InHundredths(d.calibrationError)
          = 10 * Abs(TenthsOfBand(BandOf(d.decision.confidence))
                        - TenthsOfScore(ScoreOf(d.review.expectation_comparison)))
    /\ FLe(F0, d.calibrationError) /\ FLe(d.calibrationError, F1)

\* C28: for every derived pair confBand is low for confidence 0..39, mid for
\* 40..59, high for 60..79, very_high for 80..100; confProb is 0.3, 0.5, 0.7,
\* 0.9 for those bands; outcomeScore is -2..2 for much_worse..much_better and
\* 0 for an expectation_comparison that is none of them; outcomeProb is 1,
\* 0.5 or 0 for a score above, at or below 0; calibrationError is
\* |confProb - outcomeProb| and lies in [0, 1].
C28_DerivedFields ==
    view = "derived" => \A i \in 1..Len(result) : DerivedAsTabled(result[i])

====
